---- MODULE Spec2Model ----
(***************************************************************************)
(* Wildfire Evacuation: the rules engine of game.py (WildfireGame, the     *)
(* interactive engine) and of the two headless re-implementations          *)
(* (sim_game_options.AutoGame, multi_strategy_eval.AutoGame).              *)
(*                                                                         *)
(* Every call of the random source and every answer of a player or policy  *)
(* is an input of the step that consumes it, drawn from a small set.       *)
(***************************************************************************)
EXTENDS Integers, Sequences, FiniteSets, TLC

\* ------------------------------------------------------------------ bounds

\* Tokens a seat collects where the model counts them out: in the explored
\* preparation of game.py and on the way into the disaster phase (the code
\* allows one per round).
MaxTokens == 2
\* Action cards drawn in one disaster phase (the code has no cap): a movement
\* that would draw one more is not explored.
MaxDraws == 2
\* Trades started in one disaster phase (the code has no cap).
MaxTrades == 1
\* Shuffles are explored as the rotations Shuffle(deck, k), k in 0..MaxShuffle.
MaxShuffle == 2

\* Preparation-phase visits explored on the free stream (the code has no cap).
MaxVisits == 2

\* choose_players: `while num not in range(2, 6)`.
MIN_PLAYERS == 2
MAX_PLAYERS == 5
PLAYER_NAMES == <<"P1", "P2", "P3", "P4", "P5">>

\* ------------------------------------------------------------- card data

LocNames == <<"Home", "Grocery Store", "Pharmacy", "Gas Station", "Electronics Store">>

Rep(x, n) == [i \in 1..n |-> x]

LOCATIONS ==
    [loc \in {LocNames[i] : i \in 1..Len(LocNames)} |->
       CASE loc = "Home" ->
              Rep(<<"Emergency Blanket", 1>>, 3) \o Rep(<<"Important Documents", 2>>, 3)
                \o Rep(<<"Extra Clothes", 1>>, 3)
         [] loc = "Grocery Store" ->
              Rep(<<"Water Bottle", 1>>, 3) \o Rep(<<"Extra Cash", 2>>, 2)
                \o Rep(<<"Canned Food", 3>>, 3)
         [] loc = "Pharmacy" ->
              Rep(<<"N95 Respirator", 2>>, 2) \o Rep(<<"First Aid Kit", 1>>, 3)
                \o Rep(<<"1 Month of Medication", 3>>, 3)
         [] loc = "Gas Station" ->
              Rep(<<"Gas Canister", 1>>, 3) \o Rep(<<"Flashlight", 2>>, 2)
                \o Rep(<<"Spare Tire", 3>>, 1)
         [] loc = "Electronics Store" ->
              Rep(<<"Batteries", 2>>, 3) \o Rep(<<"Hand Crank Radio", 3>>, 1)
                \o Rep(<<"Power Bank", 1>>, 2)]

\* The character profiles, in the order of the dict: name |-> <<plus, multiplier>>.
CharNames == <<"Elderly", "Student", "Parent", "Pet Owner", "Community Leader">>

\* (id, title, blocker); the penalty text is only printed.
ACTION_CARDS ==
    << [id |-> 1, title |-> "Flat Tire",         blocker |-> "Spare Tire"],
       [id |-> 2, title |-> "Road Block",        blocker |-> "Important Documents"],
       [id |-> 3, title |-> "Heavy Smoke",       blocker |-> "N95 Respirator"],
       [id |-> 4, title |-> "Blackout",          blocker |-> "Flashlight"],
       [id |-> 5, title |-> "Bad Directions",    blocker |-> "Hand Crank Radio"],
       [id |-> 6, title |-> "Dehydration",       blocker |-> "Water Bottle"],
       [id |-> 7, title |-> "Medical Emergency", blocker |-> "First Aid Kit"],
       [id |-> 8, title |-> "Food Spoilage",     blocker |-> "Canned Food"] >>

PATH_LENGTH == 15
SAFE_ZONE_INDEX == PATH_LENGTH
RED_SPACES == {4, 8, 10, 12, 13}
SHORTCUT_SPACES == {5, 9}

\* Numbers the code writes as literals.
PREP_ROUNDS == 7
SPARK_AFTER_ROUND == 3
TOKEN_MOVE == 5
SHORTCUT_JUMP == 3
BACKTRACK == 4
FIRST_ARRIVAL_BONUS == 5
POINT_PENALTY == 5
SIM_MAX_TURNS == 200
STARTING_CARDS == 2

\* ----------------------------------------------------------------- helpers

Min2(a, b) == IF a < b THEN a ELSE b
Max2(a, b) == IF a > b THEN a ELSE b

Range(s) == {s[i] : i \in 1..Len(s)}

\* list.pop(): the list without its last element.
ButLast(s) == SubSeq(s, 1, Len(s) - 1)
Last(s) == s[Len(s)]

\* ResourceCard is a dataclass: == compares name, points and origin.
CardEq(a, b) == a.name = b.name /\ a.points = b.points /\ a.origin = b.origin

\* list.remove(x): the list without the first element equal (==) to x.
RECURSIVE RemoveFirst(_, _)
RemoveFirst(s, x) ==
    IF s = <<>> THEN <<>>
    ELSE IF CardEq(Head(s), x) THEN Tail(s)
    ELSE <<Head(s)>> \o RemoveFirst(Tail(s), x)

\* next(c for c in inventory if c.name == name): the first card of that name.
RECURSIVE FirstNamed(_, _)
FirstNamed(s, name) ==
    IF Head(s).name = name THEN Head(s) ELSE FirstNamed(Tail(s), name)

\* random.shuffle, explored on a bounded family of permutations: the rotation
\* of the list by 5k places (k = 0 leaves the list as built).
ShuffleStride == 5
Shuffle(s, k) ==
    IF s = <<>> THEN s
    ELSE LET r == (ShuffleStride * k) % Len(s)
         IN  SubSeq(s, r + 1, Len(s)) \o SubSeq(s, 1, r)

\* ------------------------------------------------------------------- state

VARIABLES
    engine,              \* "game" (game.py), "sim" (sim_game_options.py), "eval" (multi_strategy_eval.py)
    stream,              \* the family the random stream of this run is drawn from, see StreamFamilies
    phase,               \* WildfireGame.phase
    prep_round,          \* WildfireGame.prep_round
    players,             \* the Player objects, in seat order
    location_decks,      \* location |-> list of ResourceCard; pop() takes the last
    action_deck,         \* WildfireGame.action_deck; pop() takes the last
    first_to_safe_zone,  \* WildfireGame.first_to_safe_zone: a seat, or 0 for None
    first_to_safe,       \* the local flag first_to_safe / first of the headless engines
    turns,               \* the local round counter of sim_game_options' _disaster_phase
    pc,                  \* where the running method stands
    cur,                 \* the seat the running for-loop is at
    ghost,               \* history counters, read by the properties and the bounds only
    last                 \* the operation that produced this state, with its inputs

vars == <<engine, stream, phase, prep_round, players, location_decks, action_deck,
          first_to_safe_zone, first_to_safe, turns, pc, cur, ghost, last>>

\* The seats of the table, 1..len(self.players).
Players == DOMAIN players
NumPlayers == Cardinality(Players)

\* "free": every outcome of the dice, cards and decisions, with at most MaxDraws
\* action cards drawn and MaxVisits locations visited. "long": game.py's
\* disaster phase on every outcome, however many action cards are drawn. "stall": the stream on
\* which every movement roll is 4, every drawn card is Bad Directions and every
\* random decision is a refusal. "drain": the preparation in which every choice
\* of a location, the starting deal included, falls on the Gas Station.
StreamFamilies == {"free", "stall"}
PrepFamilies == {"free", "drain"}

\* ------------------------------------------------------------ entity model

\* ResourceCard(name, points, origin); id tells the objects of one deck apart.
Deck(loc) ==
    [i \in 1..Len(LOCATIONS[loc]) |->
        [name |-> LOCATIONS[loc][i][1], points |-> LOCATIONS[loc][i][2],
         origin |-> loc, id |-> i]]

\* Player(name, character) with the dataclass defaults.
NewPlayer(p) ==
    [character |-> CharNames[p], inventory |-> <<>>, tokens |-> 0, position |-> 0,
     skipped_turns |-> 0, one_space_only |-> FALSE, reached_safe_zone |-> FALSE,
     bonus_points |-> 0, last_location |-> "(none)"]

AddCard(pl, card) == [pl EXCEPT !.inventory = Append(@, card)]

HasCard(pl, name) == \E i \in 1..Len(pl.inventory) : pl.inventory[i].name = name

\* The location decks as built and shuffled by the constructors.
ShuffledDecks(k) == [loc \in DOMAIN LOCATIONS |-> Shuffle(Deck(loc), k)]

\* A draw that hands out the top card and leaves it on the deck.
DrawWithoutPop(w, p, loc) ==
    IF w.decks[loc] /= <<>>
    THEN [w EXCEPT !.players[p] = AddCard(@, Last(w.decks[loc]))]
    ELSE w

\* if decks[loc]: player.add_card(decks[loc].pop()), on w = [players, decks].
DrawFrom(w, p, loc) ==
    IF w.decks[loc] /= <<>>
    THEN [players |-> [w.players EXCEPT ![p] = AddCard(@, Last(w.decks[loc]))],
          decks   |-> [w.decks EXCEPT ![loc] = ButLast(@)]]
    ELSE w

\* The starting deal: for pl in players, twice: loc = rng.choice(...), DrawFrom.
\* locs lists the 2 * len(players) chosen locations in the order of the loop.
RECURSIVE DealStartingResources(_, _, _)
DealStartingResources(w, locs, n) ==
    IF n > Len(locs) THEN w
    ELSE DealStartingResources(
             DrawFrom(w, ((n - 1) \div STARTING_CARDS) + 1, locs[n]), locs, n + 1)

\* ------------------------------------- game.py: one disaster turn, by stage

\* move = 1 under Road Block, else 2 * rng.randint(1, 3); +5 if a token is spent.
GameDie == {2, 4, 6}
\* A movement that rolls the die under Road Block as well.
MovementIgnoresRoadBlock(pl, die, spend) ==
    die + (IF spend THEN TOKEN_MOVE ELSE 0)

GameMovement(pl, die, spend) ==
    (IF pl.one_space_only THEN 1 ELSE die) + (IF spend THEN TOKEN_MOVE ELSE 0)

\* if player.tokens and not player.reached_safe_zone: the token prompt is shown.
GameTokenOffered(pl) == pl.tokens /= 0 /\ ~pl.reached_safe_zone

\* A movement that is not cut at the end of the path.
AdvanceUnclamped(pos, move) == pos + move

\* new_pos = min(player.position + move, SAFE_ZONE_INDEX)
GameAdvance(pos, move) == Min2(pos + move, SAFE_ZONE_INDEX)

\* A movement that takes the +5 of a token and leaves the token with the player.
MovedTokenKept(pl, die, spend) ==
    [pl EXCEPT !.one_space_only = FALSE,
               !.position = GameAdvance(@, GameMovement(pl, die, spend))]

GameMoved(pl, die, spend) ==
    [pl EXCEPT !.one_space_only = FALSE,
               !.tokens = IF spend THEN @ - 1 ELSE @,
               !.position = GameAdvance(@, GameMovement(pl, die, spend))]

\* if player.position in SHORTCUT_SPACES and not player.reached_safe_zone
GameGambleOffered(pl) == pl.position \in SHORTCUT_SPACES /\ ~pl.reached_safe_zone

\* A gamble that costs the next turn whether it is won or lost.
GambledAlwaysDelays(pl, roll) ==
    IF roll >= 5
    THEN [pl EXCEPT !.position = Min2(@ + SHORTCUT_JUMP, SAFE_ZONE_INDEX),
                    !.skipped_turns = 1]
    ELSE [pl EXCEPT !.skipped_turns = 1]

GameGambled(pl, roll) ==
    IF roll >= 5
    THEN [pl EXCEPT !.position = Min2(@ + SHORTCUT_JUMP, SAFE_ZONE_INDEX)]
    ELSE [pl EXCEPT !.skipped_turns = 1]

\* A card for the shortcut spaces as well as for the red ones.
OnRedOrShortcutSpace(pl) ==
    pl.position \in (RED_SPACES \cup SHORTCUT_SPACES) /\ ~pl.reached_safe_zone

\* if player.position in RED_SPACES and not player.reached_safe_zone
GameOnRedSpace(pl) == pl.position \in RED_SPACES /\ ~pl.reached_safe_zone

\* A deck that is topped up as soon as a single card is left.
DrawRefillsEarly(deck, k) ==
    LET full == IF Len(deck) <= 1 THEN Shuffle(deck \o ACTION_CARDS, k) ELSE deck
    IN  [card |-> Last(full), deck |-> ButLast(full)]

\* A draw that shows the last card and leaves it on the deck.
DrawWithoutPopping(deck, k) ==
    LET full == IF deck = <<>> THEN Shuffle(ACTION_CARDS, k) ELSE deck
    IN  [card |-> Last(full), deck |-> full]

\* draw_action_card: refill and reshuffle (seed k) when empty, then pop().
DrawActionCard(deck, k) ==
    LET full == IF deck = <<>> THEN Shuffle(ACTION_CARDS, k) ELSE deck
    IN  [card |-> Last(full), deck |-> ButLast(full)]

\* A table of penalties whose Bad Directions is not cut at space 0.
PenaltyUnclamped(pl, title) ==
    CASE title \in {"Flat Tire", "Heavy Smoke", "Blackout"}
                                     -> [pl EXCEPT !.skipped_turns = @ + 1]
      [] title = "Road Block"        -> [pl EXCEPT !.one_space_only = TRUE]
      [] title = "Bad Directions"    -> [pl EXCEPT !.position = @ - BACKTRACK]
      [] title \in {"Dehydration", "Food Spoilage"}
                                     -> [pl EXCEPT !.bonus_points = @ - POINT_PENALTY]
      [] title = "Medical Emergency" -> [pl EXCEPT !.skipped_turns = @ + 2]
      [] OTHER                       -> pl

\* resolve_action_card, after the blocker prompt: the penalty keyed by title.
GamePenalty(pl, title) ==
    CASE title = "Flat Tire"         -> [pl EXCEPT !.skipped_turns = @ + 1]
      [] title = "Road Block"        -> [pl EXCEPT !.one_space_only = TRUE]
      [] title = "Heavy Smoke"       -> [pl EXCEPT !.skipped_turns = @ + 1]
      [] title = "Blackout"          -> [pl EXCEPT !.skipped_turns = @ + 1]
      [] title = "Car Trouble"       -> [pl EXCEPT !.inventory =
                                            IF @ /= <<>> THEN ButLast(@) ELSE @]
      [] title = "Bad Directions"    -> [pl EXCEPT !.position = Max2(0, @ - BACKTRACK)]
      [] title = "Dehydration"       -> [pl EXCEPT !.bonus_points = @ - POINT_PENALTY]
      [] title = "Medical Emergency" -> [pl EXCEPT !.skipped_turns = @ + 2]
      [] title = "Food Spoilage"     -> [pl EXCEPT !.bonus_points = @ - POINT_PENALTY]
      [] OTHER                       -> pl

\* if blocker and player.has_card(blocker): the blocker prompt is shown.
GameBlockerOffered(pl, card) == card.blocker /= "" /\ HasCard(pl, card.blocker)

\* A resolution in which the blocker card is handed in when it is used.
ResolvedBlockerSpent(pl, card, use) ==
    IF GameBlockerOffered(pl, card) /\ use
    THEN [pl EXCEPT !.inventory = RemoveFirst(@, FirstNamed(@, card.blocker))]
    ELSE GamePenalty(pl, card.title)

GameResolved(pl, card, use) ==
    IF GameBlockerOffered(pl, card) /\ use THEN pl ELSE GamePenalty(pl, card.title)

\* An arrival that records the player as safe and awards nothing.
ArrivedWithoutBonus(pl, slotEmpty) ==
    IF pl.position >= SAFE_ZONE_INDEX THEN [pl EXCEPT !.reached_safe_zone = TRUE] ELSE pl

\* if player.position >= SAFE_ZONE_INDEX: arrive; the first arrival takes +5.
GameArrived(pl, slotEmpty) ==
    IF pl.position >= SAFE_ZONE_INDEX
    THEN [pl EXCEPT !.reached_safe_zone = TRUE,
                    !.bonus_points = IF slotEmpty THEN @ + FIRST_ARRIVAL_BONUS ELSE @]
    ELSE pl

\* The outcomes of one take_disaster_turn before the safe-zone check, as
\* [pl, deck, drew, moved, cut]: one per combination of die, answers, gamble roll
\* and card; moved is FALSE when the turn returned early (already safe, or
\* delayed); cut tells that min() cut the movement short at SAFE_ZONE_INDEX.
GameAfterShortcut(g, deck, draws) ==
    IF ~GameOnRedSpace(g)
    THEN {[pl |-> g, deck |-> deck, drew |-> 0, moved |-> TRUE, cut |-> FALSE, spent |-> FALSE]}
    ELSE IF draws >= MaxDraws THEN {}
    ELSE UNION {
           LET d == DrawActionCard(deck, k)
           IN  {[pl |-> GameResolved(g, d.card, use), deck |-> d.deck, drew |-> 1,
                 moved |-> TRUE, cut |-> FALSE, spent |-> FALSE] :
                  use \in IF GameBlockerOffered(g, d.card) THEN BOOLEAN ELSE {FALSE}}
           : k \in IF deck = <<>> THEN 0..MaxShuffle ELSE {0}}

GameAfterMove(m, deck, draws) ==
    UNION {GameAfterShortcut(g, deck, draws) :
             g \in IF GameGambleOffered(m)
                   THEN {m} \cup {GameGambled(m, roll) : roll \in 1..6}
                   ELSE {m}}

GameTurnOutcomes(pl, deck, draws) ==
    IF pl.reached_safe_zone
    THEN {[pl |-> pl, deck |-> deck, drew |-> 0, moved |-> FALSE, cut |-> FALSE, spent |-> FALSE]}
    ELSE IF pl.skipped_turns > 0
    THEN {[pl |-> [pl EXCEPT !.skipped_turns = @ - 1], deck |-> deck, drew |-> 0,
           moved |-> FALSE, cut |-> FALSE, spent |-> FALSE]}
    ELSE UNION {
           {[o EXCEPT !.cut = pl.position + GameMovement(pl, die, spend) > SAFE_ZONE_INDEX,
                         !.spent = spend] :
              o \in GameAfterMove(GameMoved(pl, die, spend), deck, draws)} :
           die \in GameDie,
           spend \in IF GameTokenOffered(pl) THEN BOOLEAN ELSE {FALSE}}

\* ------------------------- the random stream and the policies of the headless engines

\* rng.randint(1, 6), the movement roll.
HeadlessDie == IF stream = "stall" THEN {4} ELSE 1..6
\* rng.random() < prob: the policy's answer once its other conditions hold.
PolicySays == IF stream = "stall" THEN {FALSE} ELSE BOOLEAN
\* rng.choice(wg.ACTION_CARDS), with replacement.
HeadlessCards == IF stream = "stall" THEN {ACTION_CARDS[5]} ELSE Range(ACTION_CARDS)
DrawAllowed == stream = "stall" \/ ghost.draws < MaxDraws

\* ------------------- sim_game_options.py: one turn of _disaster_phase, by stage

\* Policy.spend_token: tokens > 0 and rng.random() < spend_token_prob
SimSpendToken(tokens, says) == tokens > 0 /\ says

SimAdvance(pos, move) == Min2(pos + move, SAFE_ZONE_INDEX)

\* move = 1 if p.one_space_only else rng.randint(1, 6); move += 5 on a spend.
SimMovement(pl, die, spend) ==
    (IF pl.one_space_only THEN 1 ELSE die) + (IF spend THEN TOKEN_MOVE ELSE 0)

\* A shortcut gamble that succeeds from a roll of 4.
GambledFromFour(pl, roll) ==
    IF roll >= 4
    THEN [pl EXCEPT !.position = Min2(@ + SHORTCUT_JUMP, SAFE_ZONE_INDEX)]
    ELSE [pl EXCEPT !.skipped_turns = 1]

\* A movement that leaves the Road Block standing.
MovedKeepsRoadBlock(pl, die, spend) ==
    [pl EXCEPT !.tokens = IF spend THEN @ - 1 ELSE @,
               !.position = SimAdvance(@, SimMovement(pl, die, spend))]

SimMoved(pl, die, spend) ==
    [pl EXCEPT !.one_space_only = FALSE,
               !.tokens = IF spend THEN @ - 1 ELSE @,
               !.position = SimAdvance(@, SimMovement(pl, die, spend))]

SimGambled(pl, roll) ==
    IF roll >= 5
    THEN [pl EXCEPT !.position = Min2(@ + SHORTCUT_JUMP, SAFE_ZONE_INDEX)]
    ELSE [pl EXCEPT !.skipped_turns = 1]

\* _resolve_action_card, after the blocker test.
SimPenalty(pl, title) ==
    CASE title = "Flat Tire"                         -> [pl EXCEPT !.skipped_turns = @ + 1]
      [] title = "Road Block"                        -> [pl EXCEPT !.one_space_only = TRUE]
      [] title \in {"Heavy Smoke", "Blackout"}       -> [pl EXCEPT !.skipped_turns = @ + 1]
      [] title = "Bad Directions"                    -> [pl EXCEPT !.position = Max2(0, @ - BACKTRACK)]
      [] title \in {"Dehydration", "Food Spoilage"}  -> [pl EXCEPT !.bonus_points = @ - POINT_PENALTY]
      [] title = "Medical Emergency"                 -> [pl EXCEPT !.skipped_turns = @ + 2]
      [] OTHER                                       -> pl

\* if blocker and p.has_card(blocker) and self.policy.use_blocker(self.rng)
SimBlocked(pl, card, says) == card.blocker /= "" /\ HasCard(pl, card.blocker) /\ says

SimResolved(pl, card, says) ==
    IF SimBlocked(pl, card, says) THEN pl ELSE SimPenalty(pl, card.title)

\* An arrival that awards the +5 whether or not somebody arrived before.
ArrivedAlwaysBonus(pl, first) ==
    IF pl.position >= SAFE_ZONE_INDEX
    THEN [pl EXCEPT !.reached_safe_zone = TRUE, !.bonus_points = @ + FIRST_ARRIVAL_BONUS]
    ELSE pl

\* An arrival that is granted two spaces short of the Safe Zone.
ArrivedFromThirteen(pl, first) ==
    IF pl.position >= SAFE_ZONE_INDEX - 2
    THEN [pl EXCEPT !.reached_safe_zone = TRUE,
                    !.bonus_points = IF ~first THEN @ + FIRST_ARRIVAL_BONUS ELSE @]
    ELSE pl

\* if p.position >= SAFE_ZONE_INDEX: ...; if not first_to_safe: ...; bonus += 5
SimArrived(pl, first) ==
    IF pl.position >= SAFE_ZONE_INDEX
    THEN [pl EXCEPT !.reached_safe_zone = TRUE,
                    !.bonus_points = IF ~first THEN @ + FIRST_ARRIVAL_BONUS ELSE @]
    ELSE pl

SimAfterShortcut(g) ==
    IF g.position \notin RED_SPACES
    THEN {[pl |-> g, drew |-> 0, moved |-> TRUE, cut |-> FALSE, spent |-> FALSE]}
    ELSE IF ~DrawAllowed THEN {}
    ELSE {[pl |-> SimResolved(g, card, says), drew |-> 1, moved |-> TRUE, cut |-> FALSE, spent |-> FALSE] :
            card \in HeadlessCards, says \in PolicySays}

SimAfterMove(m) ==
    UNION {SimAfterShortcut(g) :
             g \in IF m.position \in SHORTCUT_SPACES
                   THEN {m} \cup {SimGambled(m, roll) : roll \in 1..6, says \in PolicySays \ {FALSE}}
                   ELSE {m}}

\* A turn that takes one delay off and moves on all the same.
TurnMovesWhileDelayed(pl) ==
    IF pl.reached_safe_zone THEN {[pl |-> pl, drew |-> 0, moved |-> FALSE, cut |-> FALSE, spent |-> FALSE]}
    ELSE LET due == [pl EXCEPT !.skipped_turns = IF @ > 0 THEN @ - 1 ELSE 0]
         IN  UNION {
               LET spend == SimSpendToken(due.tokens, says)
               IN  {[o EXCEPT !.cut = due.position + SimMovement(due, die, spend) > SAFE_ZONE_INDEX,
                         !.spent = spend] :
                      o \in SimAfterMove(SimMoved(due, die, spend))} :
               die \in HeadlessDie, says \in PolicySays}

SimTurnOutcomes(pl) ==
    IF pl.reached_safe_zone THEN {[pl |-> pl, drew |-> 0, moved |-> FALSE, cut |-> FALSE, spent |-> FALSE]}
    ELSE IF pl.skipped_turns > 0
    THEN {[pl |-> [pl EXCEPT !.skipped_turns = @ - 1], drew |-> 0, moved |-> FALSE,
           cut |-> FALSE, spent |-> FALSE]}
    ELSE UNION {
           LET spend == SimSpendToken(pl.tokens, says)
           IN  {[o EXCEPT !.cut = pl.position + SimMovement(pl, die, spend) > SAFE_ZONE_INDEX,
                         !.spent = spend] :
                  o \in SimAfterMove(SimMoved(pl, die, spend))} :
           die \in HeadlessDie, says \in PolicySays}

\* ------------------ multi_strategy_eval.py: one turn of _disaster_phase, by stage

\* A policy that spends a token whenever the random draw says so.
SpendWhenever(tokens, says) == says

\* BasePolicy.spend_token: player.tokens and game.rng.random() < 0.5
EvalSpendToken(tokens, says) == tokens /= 0 /\ says

EvalAdvance(pos, move) == Min2(pos + move, SAFE_ZONE_INDEX)

EvalMovement(pl, die, spend) ==
    (IF pl.one_space_only THEN 1 ELSE die) + (IF spend THEN TOKEN_MOVE ELSE 0)

EvalMoved(pl, die, spend) ==
    [pl EXCEPT !.one_space_only = FALSE,
               !.tokens = IF spend THEN @ - 1 ELSE @,
               !.position = EvalAdvance(@, EvalMovement(pl, die, spend))]

EvalGambled(pl, roll) ==
    IF roll >= 5
    THEN [pl EXCEPT !.position = Min2(@ + SHORTCUT_JUMP, SAFE_ZONE_INDEX)]
    ELSE [pl EXCEPT !.skipped_turns = 1]

\* _action_card, after the blocker test.
EvalPenalty(pl, title) ==
    CASE title = "Flat Tire"                         -> [pl EXCEPT !.skipped_turns = @ + 1]
      [] title = "Road Block"                        -> [pl EXCEPT !.one_space_only = TRUE]
      [] title \in {"Heavy Smoke", "Blackout"}       -> [pl EXCEPT !.skipped_turns = @ + 1]
      [] title = "Bad Directions"                    -> [pl EXCEPT !.position = Max2(0, @ - BACKTRACK)]
      [] title \in {"Dehydration", "Food Spoilage"}  -> [pl EXCEPT !.bonus_points = @ - POINT_PENALTY]
      [] title = "Medical Emergency"                 -> [pl EXCEPT !.skipped_turns = @ + 2]
      [] OTHER                                       -> pl

\* A resolution in which the evaluation hands in the blocker it plays.
EvalBlockerDiscarded(pl, card, says) ==
    IF card.blocker /= "" /\ HasCard(pl, card.blocker) /\ says
    THEN [pl EXCEPT !.inventory = RemoveFirst(@, FirstNamed(@, card.blocker))]
    ELSE EvalPenalty(pl, card.title)

EvalResolved(pl, card, says) ==
    IF card.blocker /= "" /\ HasCard(pl, card.blocker) /\ says
    THEN pl ELSE EvalPenalty(pl, card.title)

\* if p.position >= wg.SAFE_ZONE_INDEX: ...; if not first: first = True; bonus += 5
EvalArrived(pl, first) ==
    IF pl.position >= SAFE_ZONE_INDEX
    THEN [pl EXCEPT !.reached_safe_zone = TRUE,
                    !.bonus_points = IF ~first THEN @ + FIRST_ARRIVAL_BONUS ELSE @]
    ELSE pl

EvalAfterShortcut(g) ==
    IF g.position \notin RED_SPACES
    THEN {[pl |-> g, drew |-> 0, moved |-> TRUE, cut |-> FALSE, spent |-> FALSE]}
    ELSE IF ~DrawAllowed THEN {}
    ELSE {[pl |-> EvalResolved(g, card, says), drew |-> 1, moved |-> TRUE, cut |-> FALSE, spent |-> FALSE] :
            card \in HeadlessCards, says \in PolicySays}

EvalAfterMove(m) ==
    UNION {EvalAfterShortcut(g) :
             g \in IF m.position \in SHORTCUT_SPACES
                   THEN {m} \cup {EvalGambled(m, roll) : roll \in 1..6, says \in PolicySays \ {FALSE}}
                   ELSE {m}}

\* if p.reached_safe_zone or p.skipped_turns: p.skipped_turns -= p.skipped_turns > 0; continue
EvalTurnOutcomes(pl) ==
    IF pl.reached_safe_zone \/ pl.skipped_turns /= 0
    THEN {[pl |-> [pl EXCEPT !.skipped_turns = @ - (IF @ > 0 THEN 1 ELSE 0)],
           drew |-> 0, moved |-> FALSE, cut |-> FALSE, spent |-> FALSE]}
    ELSE UNION {
           LET spend == EvalSpendToken(pl.tokens, says)
           IN  {[o EXCEPT !.cut = pl.position + EvalMovement(pl, die, spend) > SAFE_ZONE_INDEX,
                         !.spent = spend] :
                  o \in EvalAfterMove(EvalMoved(pl, die, spend))} :
           die \in HeadlessDie, says \in PolicySays}

\* ------------------------------------------------------ preparation actions

\* The answers the model types at "Your selection: ": the decimal digits, the
\* letter x, and the one-character answer SUPERSCRIPT TWO, written here by its
\* code point.
SuperscriptTwo == "U+00B2"
DecimalDigits == {"0", "1", "2", "3", "4", "5", "6", "7", "8", "9"}

\* str.isdigit(): true of the decimal digits and of the superscript digits.
IsDigit(choice) == choice \in DecimalDigits \cup {SuperscriptTwo}

\* int(choice) raises ValueError on anything but a decimal number.
IntRaises(choice) == choice \notin DecimalDigits

\* int(choice), for the answers on which it does not raise; -1 stands for the rest.
ChoiceValue(choice) ==
    CASE choice = "0" -> 0 [] choice = "1" -> 1 [] choice = "2" -> 2
      [] choice = "3" -> 3 [] choice = "4" -> 4 [] choice = "5" -> 5
      [] choice = "6" -> 6 [] OTHER -> -1

\* elif choice.isdigit() and 1 <= int(choice) <= len(LOCATIONS): int() is
\* evaluated, and may raise, on every answer but "0" that isdigit() accepts.
PrepChoiceRaises(choice) == choice /= "0" /\ IsDigit(choice) /\ IntRaises(choice)

\* A visit that does not record where the player went.
VisitKeepsLocation(w, p, choice) ==
    IF choice = "0"
    THEN [w EXCEPT !.players[p].tokens = @ + 1, !.players[p].last_location = "Yard"]
    ELSE IF IsDigit(choice) /\ ChoiceValue(choice) >= 1 /\ ChoiceValue(choice) <= Len(LocNames)
    THEN DrawFrom(w, p, LocNames[ChoiceValue(choice)])
    ELSE w

\* A yard clearing that also hands out the top card of Home.
TokenWithCard(w, p, choice) ==
    IF choice = "0"
    THEN DrawFrom([w EXCEPT !.players[p].tokens = @ + 1,
                            !.players[p].last_location = "Yard"], p, "Home")
    ELSE IF IsDigit(choice) /\ ChoiceValue(choice) >= 1 /\ ChoiceValue(choice) <= Len(LocNames)
    THEN LET loc == LocNames[ChoiceValue(choice)]
         IN  DrawFrom([w EXCEPT !.players[p].last_location = loc], p, loc)
    ELSE w

\* take_prep_turn from `choice = input(...)` on, on w = [players, decks], for
\* the answers on which it does not raise.
GamePrepChoice(w, p, choice) ==
    IF choice = "0"
    THEN [w EXCEPT !.players[p].tokens = @ + 1, !.players[p].last_location = "Yard"]
    ELSE IF IsDigit(choice) /\ ChoiceValue(choice) >= 1 /\ ChoiceValue(choice) <= Len(LocNames)
    THEN LET loc == LocNames[ChoiceValue(choice)]
         IN  DrawFrom([w EXCEPT !.players[p].last_location = loc], p, loc)
    ELSE w

\* The body of _prep_phase's loop in sim_game_options.py; act is
\* [kind |-> "TakeToken"] or [kind |-> "Visit", loc |-> ...] for "Visit_<loc>".
SimPrepAction(w, p, act) ==
    IF act.kind = "TakeToken"
    THEN [w EXCEPT !.players[p].tokens = @ + 1]
    ELSE DrawFrom(w, p, act.loc)

\* The body of _prep_phase's loop in multi_strategy_eval.py.
EvalPrepAction(w, p, act) ==
    IF act.kind = "TakeToken"
    THEN [w EXCEPT !.players[p].tokens = @ + 1]
    ELSE DrawFrom(w, p, act.loc)

\* ------------------------------------------- construction and preparation phase

\* The locations the starting deal's rng.choice falls on, explored on two
\* deals: seat p twice at EntryLoc(p), or every card from the Gas Station.
EntryLoc(p) == LocNames[((2 * p - 1) % Len(LocNames)) + 1]

EntryDeal(n) == [i \in 1..(STARTING_CARDS * n) |->
                    EntryLoc(((i - 1) \div STARTING_CARDS) + 1)]

DrainDeal(n) == [i \in 1..(STARTING_CARDS * n) |-> "Gas Station"]

DealChoices(n, f) == IF f = "drain" THEN {DrainDeal(n)} ELSE {EntryDeal(n), DrainDeal(n)}

\* n freshly built players and the decks as shuffled by the constructor.
FreshWorld(n, k) ==
    [players |-> [p \in 1..n |-> NewPlayer(p)], decks |-> ShuffledDecks(k)]

\* The history counters at construction, for a table of n: action cards drawn,
\* trades started, +5 bonuses received per seat, preparation actions taken per
\* seat, locations visited, movements cut short at SAFE_ZONE_INDEX, and, within
\* the current preparation round, the turns taken and the disaster-die rolls made;
\* per seat, the tokens taken in preparation and the token spends decided.
NoGhost(n) ==
    [draws |-> 0, trades |-> 0, awards |-> [p \in 1..n |-> 0],
     prep_actions |-> [p \in 1..n |-> 0], visits |-> 0, cuts |-> 0,
     round_turns |-> 0, round_rolls |-> 0,
     taken |-> [p \in 1..n |-> 0], spent |-> [p \in 1..n |-> 0]]

\* WildfireGame.__init__ (game.py); AutoGame.__init__ followed by
\* _deal_starting_resources (sim_game_options.py); AutoGame.__init__ alone
\* (multi_strategy_eval.py, which deals no starting cards).
InitPrep ==
    \E e \in {"game", "sim", "eval"}, k \in 0..MaxShuffle, f \in PrepFamilies :
      \E n \in IF f = "drain" THEN MIN_PLAYERS..MAX_PLAYERS ELSE {MIN_PLAYERS} :
        \E locs \in DealChoices(n, f) :
          LET w == IF e = "eval" THEN FreshWorld(n, k)
                   ELSE DealStartingResources(FreshWorld(n, k), locs, 1)
          IN  /\ engine = e
              /\ stream = f
              /\ phase = IF e = "game" THEN "prep" ELSE "n/a"
              /\ prep_round = IF e = "game" THEN 1 ELSE 0
              /\ players = w.players
              /\ location_decks = w.decks
              /\ action_deck = IF e = "game" THEN Shuffle(ACTION_CARDS, k) ELSE <<>>
              /\ first_to_safe_zone = 0
              /\ first_to_safe = FALSE
              /\ turns = 0
              /\ pc = "prep_turn"
              /\ cur = 1
              /\ ghost = NoGhost(n)
              /\ last = [op |-> "init"]

\* What a player types at "Your selection: ".
PrepChoices == {"0", "2", "4", "6", "x", SuperscriptTwo}

IsVisit(choice) ==
    IsDigit(choice) /\ ChoiceValue(choice) >= 1 /\ ChoiceValue(choice) <= Len(LocNames)

\* The choices explored in the current state: on the drain stream always "4";
\* on the free stream a token while the seat holds fewer than MaxTokens and a
\* visit while fewer than MaxVisits were made.
ChoiceExplored(p, choice) ==
    IF stream = "drain" THEN choice = "4"
    ELSE /\ choice = "0" => players[p].tokens < MaxTokens
         /\ IsVisit(choice) => ghost.visits < MaxVisits

\* A disaster die that sparks on a five.
SparksOnFive(result) == result = 5

\* roll_disaster_die: True if a 6 is rolled.
RollDisasterDie(result) == result = 6

\* A preparation in which the die is rolled in every round.
RollsInEveryRound(round) == TRUE

\* A preparation in which the die is rolled from round 3 on.
RollsFromRoundThree(round) == round >= SPARK_AFTER_ROUND

\* if self.prep_round > 3: the die is rolled after this player's turn.
RollsDie(round) == round > SPARK_AFTER_ROUND

\* A preparation whose rounds are not counted out.
NeverOver(round) == FALSE

\* if self.prep_round >= 7: the fire front arrives.
RoundOver(round) == round >= PREP_ROUNDS

\* One pass of `for p in self.players` in preparation_phase: take_prep_turn(p)
\* and, from round 4, the disaster die; after the last seat, the end of the round.
\* An exception raised in take_prep_turn is caught nowhere: it leaves
\* preparation_phase and run, and the program ends with a traceback.
GamePrepTurn(p) ==
    /\ engine = "game" /\ pc = "prep_turn" /\ cur = p /\ phase = "prep"
    /\ \E choice \in PrepChoices :
         /\ ChoiceExplored(p, choice)
         /\ IF PrepChoiceRaises(choice)
            THEN /\ pc' = "raised"
                 /\ last' = [op |-> "raise", p |-> p, round |-> prep_round,
                             choice |-> choice]
                 /\ UNCHANGED <<players, location_decks, phase, prep_round, cur, ghost>>
            ELSE
            LET w      == GamePrepChoice([players |-> players, decks |-> location_decks],
                                         p, choice)
                rolled == RollsDie(prep_round)
            IN  \E result \in IF rolled THEN 1..6 ELSE {0} :
                  LET spark == rolled /\ RollDisasterDie(result)
                      over  == ~spark /\ p = NumPlayers /\ RoundOver(prep_round)
                      next  == ~spark /\ p = NumPlayers /\ ~RoundOver(prep_round)
                  IN  /\ players' = w.players
                      /\ location_decks' = w.decks
                      /\ phase' = IF spark \/ over THEN "disaster" ELSE phase
                      /\ prep_round' = IF next THEN prep_round + 1 ELSE prep_round
                      /\ pc' = IF spark \/ over THEN "prep_done" ELSE pc
                      /\ cur' = IF spark \/ over THEN cur
                                ELSE IF next THEN 1 ELSE p + 1
                      /\ ghost' = [ghost EXCEPT
                             !.prep_actions[p] = @ + 1,
                             !.visits = @ + (IF IsVisit(choice) THEN 1 ELSE 0),
                             !.taken[p] = @ + (IF choice = "0" THEN 1 ELSE 0),
                             !.round_turns = IF next THEN 0 ELSE @ + 1,
                             !.round_rolls = IF next THEN 0
                                             ELSE @ + (IF rolled THEN 1 ELSE 0)]
                      /\ last' = [op |-> "prep", p |-> p, round |-> prep_round,
                                  choice |-> choice, rolled |-> rolled, spark |-> spark,
                                  six |-> rolled /\ result = 6]
    /\ UNCHANGED <<engine, stream, action_deck, first_to_safe_zone, first_to_safe, turns>>

\* Policy.choose_prep_action: "TakeToken" or "Visit_<loc>" for a location.
PrepActs ==
    {[kind |-> "TakeToken"]} \cup
    {[kind |-> "Visit", loc |-> loc] : loc \in {"Grocery Store", "Gas Station"}}

ActExplored(act) ==
    IF stream = "drain" THEN act = [kind |-> "Visit", loc |-> "Gas Station"]
    ELSE act.kind = "Visit" => ghost.visits < MaxVisits

\* One pass of the inner loop of _prep_phase, `for _round in range(7)` around it;
\* prep_round holds _round.
HeadlessPrepTurn(e, p) ==
    /\ engine = e /\ pc = "prep_turn" /\ cur = p
    /\ \E act \in PrepActs :
         /\ ActExplored(act)
         /\ LET w0 == [players |-> players, decks |-> location_decks]
                w  == IF e = "sim" THEN SimPrepAction(w0, p, act)
                      ELSE EvalPrepAction(w0, p, act)
                over == p = NumPlayers /\ prep_round + 1 >= PREP_ROUNDS
                next == p = NumPlayers /\ prep_round + 1 < PREP_ROUNDS
            IN  /\ players' = w.players
                /\ location_decks' = w.decks
                /\ prep_round' = IF next THEN prep_round + 1 ELSE prep_round
                /\ pc' = IF over THEN "prep_done" ELSE pc
                /\ cur' = IF over THEN cur ELSE IF next THEN 1 ELSE p + 1
                /\ ghost' = [ghost EXCEPT
                       !.prep_actions[p] = @ + 1,
                       !.visits = @ + (IF act.kind = "Visit" THEN 1 ELSE 0),
                       !.taken[p] = @ + (IF act.kind = "TakeToken" THEN 1 ELSE 0),
                       !.round_turns = IF next THEN 0 ELSE @ + 1]
                /\ last' = [op |-> "prep", p |-> p, round |-> prep_round, act |-> act]
    /\ UNCHANGED <<engine, stream, phase, action_deck, first_to_safe_zone, first_to_safe,
                   turns>>

SimPrepTurn(p) == HeadlessPrepTurn("sim", p)

EvalPrepTurn(p) == HeadlessPrepTurn("eval", p)

\* Every seat a table can have; an action of seat p is enabled only at cur = p.
Seats == 1..MAX_PLAYERS

NextPrep ==
    \/ \E p \in Seats : GamePrepTurn(p)
    \/ \E p \in Seats : SimPrepTurn(p)
    \/ \E p \in Seats : EvalPrepTurn(p)

\* --------------------------------------------- the states a disaster phase starts in

\* The disaster phase is explored from the states the engine reaches on this
\* script of the earlier phases: seat p's choices of a location all fall on
\* EntryLoc(p); in its first MaxTokens preparation rounds it takes a token; in
\* the later rounds it types an invalid choice (game.py, where the early spark
\* never fires) or visits EntryLoc(p) (headless engines).
RECURSIVE EntryPrep(_, _, _)
EntryPrep(e, w, n) ==
    IF n >= PREP_ROUNDS * Len(w.players) THEN w
    ELSE LET r == (n \div Len(w.players)) + 1
             p == (n % Len(w.players)) + 1
             act == IF r <= MaxTokens THEN [kind |-> "TakeToken"]
                    ELSE [kind |-> "Visit", loc |-> EntryLoc(p)]
         IN  EntryPrep(e,
                 CASE e = "game" -> GamePrepChoice(w, p, IF r <= MaxTokens THEN "0" ELSE "x")
                   [] e = "sim"  -> SimPrepAction(w, p, act)
                   [] e = "eval" -> EvalPrepAction(w, p, act),
                 n + 1)

\* WildfireGame.__init__ and SimulationRunner.run_one_game deal two starting
\* cards; multi_strategy_eval.run deals none.
EntryWorld(e, k) ==
    EntryPrep(e,
        IF e = "eval" THEN FreshWorld(MIN_PLAYERS, k)
        ELSE DealStartingResources(FreshWorld(MIN_PLAYERS, k), EntryDeal(MIN_PLAYERS), 1),
        0)

EntryStatesOn(engines, families) ==
    \E e \in engines, k \in 0..MaxShuffle, f \in families :
        /\ e = "game" => f \in {"free", "long"}
        /\ e /= "game" => (k = 0 /\ f /= "long")
        /\ engine = e
        /\ stream = f
        /\ phase = IF e = "game" THEN "disaster" ELSE "n/a"
        /\ prep_round = IF e = "game" THEN PREP_ROUNDS ELSE PREP_ROUNDS - 1
        /\ players = EntryWorld(e, k).players
        /\ location_decks = EntryWorld(e, k).decks
        /\ action_deck = IF e = "game" THEN Shuffle(ACTION_CARDS, k) ELSE <<>>
        /\ first_to_safe_zone = 0
        /\ first_to_safe = FALSE
        /\ turns = 0
        /\ pc = "disaster_start"
        /\ cur = 1
        /\ ghost = [NoGhost(MIN_PLAYERS) EXCEPT
                        !.prep_actions = [p \in 1..MIN_PLAYERS |-> PREP_ROUNDS],
                        !.taken = [p \in 1..MIN_PLAYERS |-> Min2(MaxTokens, PREP_ROUNDS)],
                        !.visits = IF e = "game" THEN 0
                                   ELSE (PREP_ROUNDS - Min2(MaxTokens, PREP_ROUNDS)) * MIN_PLAYERS,
                        !.round_turns = MIN_PLAYERS,
                        !.round_rolls = IF e = "game" THEN MIN_PLAYERS ELSE 0]
        /\ last = [op |-> "init"]

EntryStates(engines) == EntryStatesOn(engines, StreamFamilies)

InitDisaster == EntryStates({"game", "sim", "eval"})

InitGame == EntryStates({"game"})

\* game.py with no cap on the action cards drawn.
InitGameLong == EntryStatesOn({"game"}, {"long"})

InitHeadless == EntryStates({"sim", "eval"})

\* ----------------------------------------------------- game.py: disaster phase

AllSafe(ps) == \A p \in Players : ps[p].reached_safe_zone

\* disaster_phase, up to the first turn: everyone starts at path index 0.
DisasterPhaseStart ==
    /\ engine = "game" /\ pc = "disaster_start"
    /\ players' = [p \in Players |-> [players[p] EXCEPT !.position = 0]]
    /\ IF first_to_safe_zone = 0
       THEN pc' = "disaster_turn" /\ cur' = 1
       ELSE pc' = "done" /\ cur' = cur
    /\ last' = [op |-> "start"]
    /\ UNCHANGED <<engine, stream, phase, prep_round, location_decks, action_deck,
                   first_to_safe_zone, first_to_safe, turns, ghost>>

\* One pass of `for p in self.players` in disaster_phase: take_disaster_turn(p),
\* then the break on a first arrival; after the last seat, trading_phase.
TakeDisasterTurn(p) ==
    /\ engine = "game" /\ pc = "disaster_turn" /\ cur = p
    /\ \E out \in GameTurnOutcomes(players[p], action_deck,
                                    IF stream = "long" THEN 0 ELSE ghost.draws) :
         LET npl   == IF out.moved THEN GameArrived(out.pl, first_to_safe_zone = 0)
                      ELSE out.pl
             claim == out.moved /\ npl.reached_safe_zone /\ first_to_safe_zone = 0
             slot  == IF claim THEN p ELSE first_to_safe_zone
         IN  /\ players' = [players EXCEPT ![p] = npl]
             /\ action_deck' = out.deck
             /\ first_to_safe_zone' = slot
             /\ ghost' = [ghost EXCEPT
                            !.draws = @ + (IF stream = "long" THEN 0 ELSE out.drew),
                            !.cuts = @ + (IF out.cut THEN 1 ELSE 0),
                            !.spent[p] = @ + (IF out.spent THEN 1 ELSE 0),
                            !.awards[p] = @ + (IF claim THEN 1 ELSE 0)]
             /\ IF slot /= 0 THEN pc' = "done" /\ cur' = cur
                ELSE IF p < NumPlayers THEN pc' = pc /\ cur' = p + 1
                ELSE pc' = "trading" /\ cur' = 1
    /\ last' = [op |-> "turn", p |-> p]
    /\ UNCHANGED <<engine, stream, phase, prep_round, location_decks, first_to_safe,
                   turns>>

\* active = [p for p in self.players if not p.reached_safe_zone and p.inventory]
Active(ps) == {q \in Players : ~ps[q].reached_safe_zone /\ ps[q].inventory /= <<>>}

\* A partner looked up among all the players of the table, the proposer included.
PartnerAmongAll(ps, p, partner_name) ==
    LET found == {q \in Players : PLAYER_NAMES[q] = partner_name}
    IN  IF found = {} THEN 0 ELSE CHOOSE q \in found : \A r \in found : q <= r

\* partner = next((pl for pl in partners if pl.name == partner_name), None); 0 is None.
Partner(ps, p, partner_name) ==
    LET found == {q \in Active(ps) \ {p} : PLAYER_NAMES[q] = partner_name}
    IN  IF found = {} THEN 0 ELSE CHOOSE q \in found : \A r \in found : q <= r

\* if not p.has_card(give) or not partner.has_card(take): the trade fails.
TradeAllowed(ps, p, q, give, take) == HasCard(ps[p], give) /\ HasCard(ps[q], take)

\* A swap in which the proposer hands over its card and receives nothing.
GiveAway(ps, p, q, give, take) ==
    LET card_give == FirstNamed(ps[p].inventory, give)
    IN  [ps EXCEPT ![p].inventory = RemoveFirst(ps[p].inventory, card_give),
                   ![q].inventory = Append(ps[q].inventory, card_give)]

\* The swap of trading_phase.
ExecuteSwap(ps, p, q, give, take) ==
    LET card_give == FirstNamed(ps[p].inventory, give)
        card_take == FirstNamed(ps[q].inventory, take)
        removed == [ps EXCEPT ![p].inventory = RemoveFirst(@, card_give),
                              ![q].inventory = RemoveFirst(@, card_take)]
    IN  [removed EXCEPT ![p].inventory = Append(@, card_take),
                        ![q].inventory = Append(@, card_give)]

\* A proposal whose take-card is not checked: the give-card changes hands anyway.
TradedUnchecked(ps, p, partner_name, give, take) ==
    LET q == Partner(ps, p, partner_name)
    IN  IF q = 0 THEN ps
        ELSE IF ~HasCard(ps[p], give) THEN ps
        ELSE IF HasCard(ps[q], take) THEN ExecuteSwap(ps, p, q, give, take)
        ELSE [ps EXCEPT
                ![p].inventory = RemoveFirst(ps[p].inventory, FirstNamed(ps[p].inventory, give)),
                ![q].inventory = Append(ps[q].inventory, FirstNamed(ps[p].inventory, give))]

\* The players after seat p proposed (partner_name, give, take).
Traded(ps, p, partner_name, give, take) ==
    LET q == Partner(ps, p, partner_name)
    IN  IF q = 0 THEN ps
        ELSE IF ~TradeAllowed(ps, p, q, give, take) THEN ps
        ELSE ExecuteSwap(ps, p, q, give, take)

\* What trading_phase prints about the proposal.
TradeMessage(ps, p, partner_name, give, take) ==
    LET q == Partner(ps, p, partner_name)
    IN  IF Active(ps) \ {p} = {} THEN "No partners available."
        ELSE IF q = 0 THEN "Bad choice - aborted."
        ELSE IF ~TradeAllowed(ps, p, q, give, take) THEN "Trade failed - card not owned."
        ELSE "Trade successful"

NamesHeld(pl) == {pl.inventory[i].name : i \in 1..Len(pl.inventory)}

\* What seat p may type as a card name: a card it (or the partner) holds, or not.
NoSuchCard == "Nothing"

\* One pass of `for p in active` in trading_phase (a seat outside active is
\* passed over); after the last seat the next round of turns begins.
TradingTurn(p) ==
    /\ engine = "game" /\ pc = "trading" /\ cur = p
    /\ \/ /\ last' = [op |-> "no_trade", p |-> p]
          /\ UNCHANGED <<players, ghost>>
       \/ /\ p \in Active(players)
          /\ ghost.trades < MaxTrades
          /\ \E partner_name \in {PLAYER_NAMES[q] : q \in Players} :
               LET q == Partner(players, p, partner_name)
               IN  \E give \in IF q = 0 THEN {""} ELSE NamesHeld(players[p]) \cup {NoSuchCard},
                      take \in IF q = 0 THEN {""} ELSE NamesHeld(players[q]) \cup {NoSuchCard} :
                     /\ players' = Traded(players, p, partner_name, give, take)
                     /\ last' = [op |-> "trade", p |-> p, partner |-> partner_name,
                                 give |-> give, take |-> take,
                                 said |-> TradeMessage(players, p, partner_name, give, take)]
          /\ ghost' = [ghost EXCEPT !.trades = @ + 1]
    /\ IF p < NumPlayers THEN pc' = pc /\ cur' = p + 1
       ELSE pc' = "disaster_turn" /\ cur' = 1
    /\ UNCHANGED <<engine, stream, phase, prep_round, location_decks, action_deck,
                   first_to_safe_zone, first_to_safe, turns>>

\* ------------------------------------------ sim_game_options.py: _disaster_phase

\* while not all(pl.reached_safe_zone ...) and turns < 200: turns += 1
SimLoopTest(ps, t) == ~AllSafe(ps) /\ t < SIM_MAX_TURNS

SimDisasterStart ==
    /\ engine = "sim" /\ pc = "disaster_start"
    /\ LET reset == [p \in Players |->
                       [players[p] EXCEPT !.position = 0, !.skipped_turns = 0,
                                          !.one_space_only = FALSE,
                                          !.reached_safe_zone = FALSE,
                                          !.bonus_points = 0]]
       IN  /\ players' = reset
           /\ first_to_safe' = FALSE
           /\ IF SimLoopTest(reset, 0)
              THEN turns' = 1 /\ pc' = "sim_turn" /\ cur' = 1
              ELSE turns' = 0 /\ pc' = "done" /\ cur' = cur
    /\ last' = [op |-> "start"]
    /\ UNCHANGED <<engine, stream, phase, prep_round, location_decks, action_deck,
                   first_to_safe_zone, ghost>>

\* One pass of `for p in self.players`; after the last seat the while test.
SimTurn(p) ==
    /\ engine = "sim" /\ pc = "sim_turn" /\ cur = p
    /\ \E out \in SimTurnOutcomes(players[p]) :
         LET npl   == IF out.moved THEN SimArrived(out.pl, first_to_safe) ELSE out.pl
             claim == out.moved /\ npl.reached_safe_zone /\ ~first_to_safe
             nps   == [players EXCEPT ![p] = npl]
         IN  /\ players' = nps
             /\ first_to_safe' = (first_to_safe \/ (out.moved /\ npl.reached_safe_zone))
             /\ ghost' = [ghost EXCEPT
                            !.draws = @ + (IF stream = "stall" THEN 0 ELSE out.drew),
                            !.cuts = @ + (IF out.cut THEN 1 ELSE 0),
                            !.spent[p] = @ + (IF out.spent THEN 1 ELSE 0),
                            !.awards[p] = @ + (IF claim THEN 1 ELSE 0)]
             /\ IF p < NumPlayers THEN pc' = pc /\ cur' = p + 1 /\ turns' = turns
                ELSE IF SimLoopTest(nps, turns)
                THEN pc' = pc /\ cur' = 1 /\ turns' = turns + 1
                ELSE pc' = "done" /\ cur' = cur /\ turns' = turns
    /\ last' = [op |-> "turn", p |-> p]
    /\ UNCHANGED <<engine, stream, phase, prep_round, location_decks, action_deck,
                   first_to_safe_zone>>

\* -------------------------------------- multi_strategy_eval.py: _disaster_phase

EvalDisasterStart ==
    /\ engine = "eval" /\ pc = "disaster_start"
    /\ LET reset == [p \in Players |-> [players[p] EXCEPT !.position = 0]]
       IN  /\ players' = reset
           /\ first_to_safe' = FALSE
           /\ IF ~AllSafe(reset) THEN pc' = "eval_turn" /\ cur' = 1
              ELSE pc' = "done" /\ cur' = cur
    /\ last' = [op |-> "start"]
    /\ UNCHANGED <<engine, stream, phase, prep_round, location_decks, action_deck,
                   first_to_safe_zone, turns, ghost>>

EvalTurn(p) ==
    /\ engine = "eval" /\ pc = "eval_turn" /\ cur = p
    /\ \E out \in EvalTurnOutcomes(players[p]) :
         LET npl   == IF out.moved THEN EvalArrived(out.pl, first_to_safe) ELSE out.pl
             claim == out.moved /\ npl.reached_safe_zone /\ ~first_to_safe
             nps   == [players EXCEPT ![p] = npl]
         IN  /\ players' = nps
             /\ first_to_safe' = (first_to_safe \/ (out.moved /\ npl.reached_safe_zone))
             /\ ghost' = [ghost EXCEPT
                            !.draws = @ + (IF stream = "stall" THEN 0 ELSE out.drew),
                            !.cuts = @ + (IF out.cut THEN 1 ELSE 0),
                            !.spent[p] = @ + (IF out.spent THEN 1 ELSE 0),
                            !.awards[p] = @ + (IF claim THEN 1 ELSE 0)]
             /\ IF p < NumPlayers THEN pc' = pc /\ cur' = p + 1
                ELSE IF ~AllSafe(nps) THEN pc' = pc /\ cur' = 1
                ELSE pc' = "done" /\ cur' = cur
    /\ last' = [op |-> "turn", p |-> p]
    /\ UNCHANGED <<engine, stream, phase, prep_round, location_decks, action_deck,
                   first_to_safe_zone, turns>>

NextGame ==
    \/ DisasterPhaseStart
    \/ \E p \in Seats : TakeDisasterTurn(p)
    \/ \E p \in Seats : TradingTurn(p)

NextHeadless ==
    \/ SimDisasterStart
    \/ \E p \in Seats : SimTurn(p)
    \/ EvalDisasterStart
    \/ \E p \in Seats : EvalTurn(p)

NextDisaster == NextGame \/ NextHeadless

Init == InitPrep \/ InitDisaster

Next == NextPrep \/ NextDisaster

\* Every engine, from construction through the preparation and from the entry
\* states through the disaster phase.
Spec == Init /\ [][Next]_vars

\* The preparation phases alone.
SpecPrep == InitPrep /\ [][NextPrep]_vars

\* The preparation phases, each loop running on as long as it has a step to take.
SpecPrepFair == SpecPrep /\ WF_vars(NextPrep)

\* The disaster phase of game.py alone.
SpecGame == InitGame /\ [][NextGame]_vars

\* The disaster phases of the two headless engines alone.
SpecHeadless == InitHeadless /\ [][NextHeadless]_vars

\* The disaster phase of game.py run to its end: disaster_phase, once called,
\* goes on as long as it has a step to take (every prompt is answered).
SpecGameFair == InitGameLong /\ [][NextGame]_vars /\ WF_vars(NextGame)

\* The disaster phases of the headless engines, each loop running on.
SpecHeadlessFair == SpecHeadless /\ WF_vars(NextHeadless)

\* ------------------------------------------------ setup: how a table comes to be

\* Player counts asked for at setup are explored in 0..MaxRequested.
MaxRequested == 7
Requested == 0..MaxRequested

\* The process before any game object exists: program e has been started.
InitSetup ==
    /\ engine \in {"game", "sim", "eval"}
    /\ stream = "free"
    /\ phase = "n/a"
    /\ prep_round = 0
    /\ players = <<>>
    /\ location_decks = <<>>
    /\ action_deck = <<>>
    /\ first_to_safe_zone = 0
    /\ first_to_safe = FALSE
    /\ turns = 0
    /\ pc = "setup"
    /\ cur = 1
    /\ ghost = NoGhost(0)
    /\ last = [op |-> "init"]

\* The constructor of engine e run on a list of n players: the decks are built
\* and shuffled (k), game.py and sim_game_options.py deal the starting cards
\* (locs), game.py shuffles its action deck.
Construct(e, n, k, locs) ==
    LET w == IF e = "eval" THEN FreshWorld(n, k)
             ELSE DealStartingResources(FreshWorld(n, k), locs, 1)
    IN  /\ phase' = IF e = "game" THEN "prep" ELSE "n/a"
        /\ prep_round' = IF e = "game" THEN 1 ELSE 0
        /\ players' = w.players
        /\ location_decks' = w.decks
        /\ action_deck' = IF e = "game" THEN Shuffle(ACTION_CARDS, k) ELSE <<>>
        /\ first_to_safe_zone' = 0
        /\ first_to_safe' = FALSE
        /\ turns' = 0
        /\ pc' = "prep_turn"
        /\ cur' = 1
        /\ ghost' = NoGhost(n)

\* choose_players, one answer to "How many players (2-5)? ", then (in __main__)
\* WildfireGame(players): `while num not in range(2, 6)` asks again.
ChoosePlayers(num) ==
    /\ engine = "game" /\ pc = "setup"
    /\ IF num \in MIN_PLAYERS..MAX_PLAYERS
       THEN \E k \in 0..MaxShuffle, locs \in DealChoices(num, "free") :
                Construct("game", num, k, locs)
       ELSE UNCHANGED <<phase, prep_round, players, location_decks, action_deck,
                        first_to_safe_zone, first_to_safe, turns, pc, cur, ghost>>
    /\ last' = [op |-> "choose_players", num |-> num]
    /\ UNCHANGED <<engine, stream>>

\* WildfireGame(players) called with a list of n players: __init__ tests nothing.
WildfireGameInit(n) ==
    /\ engine = "game" /\ pc = "setup"
    /\ n <= MAX_PLAYERS
    /\ \E k \in 0..MaxShuffle, locs \in DealChoices(n, "free") :
           Construct("game", n, k, locs)
    /\ last' = [op |-> "WildfireGame", n |-> n]
    /\ UNCHANGED <<engine, stream>>

\* SimulationRunner.run_one_game with players_per_game = n: _setup_players
\* indexes chosen = char_pool[:n] for idx in range(n), which raises IndexError
\* beyond the five characters; otherwise AutoGame(...) and the starting deal.
RunOneGame(n, op) ==
    /\ IF n > Len(CharNames)
       THEN /\ pc' = "raised"
            /\ UNCHANGED <<phase, prep_round, players, location_decks, action_deck,
                            first_to_safe_zone, first_to_safe, turns, cur, ghost>>
       ELSE \E k \in 0..MaxShuffle, locs \in DealChoices(n, "free") :
                Construct("sim", n, k, locs)
    /\ last' = [op |-> op, n |-> n]

SimulationRunnerRun(n) ==
    /\ engine = "sim" /\ pc = "setup"
    /\ RunOneGame(n, "SimulationRunner")
    /\ UNCHANGED <<engine, stream>>

\* main of sim_game_options.py with --players n:
\* `if not 2 <= args.players <= 5: parser.error(...)`, which exits.
SimMain(n) ==
    /\ engine = "sim" /\ pc = "setup"
    /\ IF ~(MIN_PLAYERS <= n /\ n <= MAX_PLAYERS)
       THEN /\ pc' = "exit"
            /\ last' = [op |-> "parser.error", n |-> n]
            /\ UNCHANGED <<phase, prep_round, players, location_decks, action_deck,
                            first_to_safe_zone, first_to_safe, turns, cur, ghost>>
       ELSE RunOneGame(n, "main")
    /\ UNCHANGED <<engine, stream>>

\* len(s[:stop]) for a list of length len.
SliceLen(len, stop) == IF stop >= 0 THEN Min2(stop, len) ELSE Max2(len + stop, 0)

\* run of multi_strategy_eval.py: chosen = [profile] + [the others][:n - 1].
EvalTableSize(n) == 1 + SliceLen(Len(CharNames) - 1, n - 1)

\* multi_strategy_eval.run(players_per_game = n): one table is built, untested.
EvalRun(n) ==
    /\ engine = "eval" /\ pc = "setup"
    /\ \E k \in 0..MaxShuffle : Construct("eval", EvalTableSize(n), k, <<>>)
    /\ last' = [op |-> "run", n |-> n]
    /\ UNCHANGED <<engine, stream>>

\* __main__ of multi_strategy_eval.py: run(batch_games = args.games), with the
\* default players_per_game.
EVAL_DEFAULT_PLAYERS == 4
EvalMain ==
    /\ engine = "eval" /\ pc = "setup"
    /\ \E k \in 0..MaxShuffle :
           Construct("eval", EvalTableSize(EVAL_DEFAULT_PLAYERS), k, <<>>)
    /\ last' = [op |-> "main", n |-> EVAL_DEFAULT_PLAYERS]
    /\ UNCHANGED <<engine, stream>>

NextSetup ==
    \/ \E num \in Requested : ChoosePlayers(num)
    \/ \E n \in Requested : WildfireGameInit(n)
    \/ \E n \in Requested : SimMain(n)
    \/ \E n \in Requested : SimulationRunnerRun(n)
    \/ \E n \in Requested : EvalRun(n)
    \/ EvalMain

\* The setup of every program and engine, up to the constructed table.
SpecSetup == InitSetup /\ [][NextSetup]_vars

\* ------------------------------------------------------------------ scoring

\* CHARACTER_CARDS: name |-> (plus_resource, multiplier_resource).
CHARACTER_CARDS ==
    [c \in Range(CharNames) |->
       CASE c = "Elderly"   -> [plus |-> "N95 Respirator",    multiplier |-> "First Aid Kit"]
         [] c = "Student"   -> [plus |-> "Water Bottle",      multiplier |-> "Batteries"]
         [] c = "Parent"    -> [plus |-> "Extra Clothes",     multiplier |-> "Extra Cash"]
         [] c = "Pet Owner" -> [plus |-> "Emergency Blanket", multiplier |-> "Canned Food"]
         [] c = "Community Leader" ->
                               [plus |-> "Hand Crank Radio",  multiplier |-> "Neighborly Token"]]

\* COMBO_BONUSES, in the order of the list (the descriptions are only printed).
COMBO_BONUSES ==
    << [name |-> "Portable Go-Kit Bonus",
        required |-> <<"Water Bottle", "First Aid Kit", "Canned Food">>,
        points |-> 3],
       [name |-> "Prepper Kit Bonus",
        required |-> <<"Water Bottle", "First Aid Kit", "Canned Food",
                       "Important Documents", "1 Month of Medication">>,
        points |-> 6] >>

NT_BONUS == 3
COMMUNITY_LEADER_NT_BONUS == 4
RESOURCE_POINTS == 2

\* sum(c.points for c in inventory if keep(c)), for the two filters of total_points.
RECURSIVE SumPoints(_)
SumPoints(inv) == IF inv = <<>> THEN 0 ELSE Head(inv).points + SumPoints(Tail(inv))

RECURSIVE SumPointsNamed(_, _)
SumPointsNamed(inv, name) ==
    IF inv = <<>> THEN 0
    ELSE (IF Head(inv).name = name THEN Head(inv).points ELSE 0)
         + SumPointsNamed(Tail(inv), name)

\* sum(RESOURCE_POINTS for c in inventory if c.name == name)
RECURSIVE SumResourcePoints(_, _)
SumResourcePoints(inv, name) ==
    IF inv = <<>> THEN 0
    ELSE (IF Head(inv).name = name THEN RESOURCE_POINTS ELSE 0)
         + SumResourcePoints(Tail(inv), name)

\* sorted(COMBO_BONUSES, key=lambda c: c["points"], reverse=True): a stable
\* sort, here by insertion; equal keys keep the order of the list.
RECURSIVE InsertByPoints(_, _)
InsertByPoints(sorted, c) ==
    IF sorted = <<>> THEN <<c>>
    ELSE IF Head(sorted).points >= c.points
    THEN <<Head(sorted)>> \o InsertByPoints(Tail(sorted), c)
    ELSE <<c>> \o sorted

RECURSIVE SortedByPoints(_, _)
SortedByPoints(combos, n) ==
    IF n = 0 THEN <<>> ELSE InsertByPoints(SortedByPoints(combos, n - 1), combos[n])

\* inventory_names = [card.name for card in self.inventory]
InventoryNames(pl) == [i \in 1..Len(pl.inventory) |-> pl.inventory[i].name]

\* all(req in inventory_names for req in combo["required"])
Achieved(pl, combo) == \A r \in Range(combo.required) : r \in Range(InventoryNames(pl))

\* The loop of get_combo_bonuses and combo_bonus_points: the first achieved
\* combo of the sorted list, or <<>> when the loop runs out.
RECURSIVE FirstAchieved(_, _)
FirstAchieved(pl, combos) ==
    IF combos = <<>> THEN <<>>
    ELSE IF Achieved(pl, Head(combos)) THEN <<Head(combos)>>
    ELSE FirstAchieved(pl, Tail(combos))

BestCombo(pl) == FirstAchieved(pl, SortedByPoints(COMBO_BONUSES, Len(COMBO_BONUSES)))

\* Player.get_combo_bonuses
GetComboBonuses(pl) == IF BestCombo(pl) = <<>> THEN <<>> ELSE <<BestCombo(pl)[1].name>>

\* A scoring in which every achieved combo counts.
ComboPointsStacked(pl) ==
    (IF Achieved(pl, COMBO_BONUSES[1]) THEN COMBO_BONUSES[1].points ELSE 0)
    + (IF Achieved(pl, COMBO_BONUSES[2]) THEN COMBO_BONUSES[2].points ELSE 0)

\* Player.combo_bonus_points
ComboBonusPoints(pl) == IF BestCombo(pl) = <<>> THEN 0 ELSE BestCombo(pl)[1].points

\* A scoring that gives 1 point, not RESOURCE_POINTS, per plus resource.
TotalPointsPlusOne(pl) ==
    LET ch == CHARACTER_CARDS[pl.character]
        token_value == IF pl.character = "Community Leader"
                       THEN COMMUNITY_LEADER_NT_BONUS ELSE NT_BONUS
    IN  SumPoints(pl.inventory)
        + (SumResourcePoints(pl.inventory, ch.plus) \div RESOURCE_POINTS)
        + (IF ch.multiplier /= "Neighborly Token"
           THEN SumPointsNamed(pl.inventory, ch.multiplier) ELSE 0)
        + pl.tokens * token_value
        + pl.bonus_points
        + ComboBonusPoints(pl)

\* A scoring that doubles the multiplier resource only at the head of the inventory.
TotalPointsHeadOnly(pl) ==
    LET ch == CHARACTER_CARDS[pl.character]
        token_value == IF pl.character = "Community Leader"
                       THEN COMMUNITY_LEADER_NT_BONUS ELSE NT_BONUS
    IN  SumPoints(pl.inventory)
        + SumResourcePoints(pl.inventory, ch.plus)
        + (IF ch.multiplier /= "Neighborly Token" /\ pl.inventory /= <<>>
           THEN SumPointsNamed(<<Head(pl.inventory)>>, ch.multiplier) ELSE 0)
        + pl.tokens * token_value
        + pl.bonus_points
        + ComboBonusPoints(pl)

\* Player.total_points
TotalPoints(pl) ==
    LET ch == CHARACTER_CARDS[pl.character]
        token_value == IF pl.character = "Community Leader"
                       THEN COMMUNITY_LEADER_NT_BONUS ELSE NT_BONUS
    IN  SumPoints(pl.inventory)
        + SumResourcePoints(pl.inventory, ch.plus)
        + (IF ch.multiplier /= "Neighborly Token"
           THEN SumPointsNamed(pl.inventory, ch.multiplier) ELSE 0)
        + pl.tokens * token_value
        + pl.bonus_points
        + ComboBonusPoints(pl)

\* Inventories of at most MaxHand cards are scored.
MaxHand == 5

\* The cards handed to the player under scoring: ResourceCard(name, points,
\* origin) for the names the combos and the Elderly profile are about.
ScoreNames == {"Water Bottle", "First Aid Kit", "Canned Food", "Important Documents",
               "1 Month of Medication", "N95 Respirator"}
ScoreCards ==
    {c \in UNION {Range(Deck(loc)) : loc \in DOMAIN LOCATIONS} :
        c.name \in ScoreNames /\ c = FirstNamed(Deck(c.origin), c.name)}

\* The tokens and bonus_points a scored player arrives with.
ScoreStakes == {<<0, 0>>, <<1, -POINT_PENALTY>>, <<MaxTokens, FIRST_ARRIVAL_BONUS>>}

\* One Player of some character, at the end of a game.
InitScore ==
    \E c \in 1..Len(CharNames), st \in ScoreStakes :
        /\ engine = "game"
        /\ stream = "free"
        /\ phase = "disaster"
        /\ prep_round = PREP_ROUNDS
        /\ players = <<[NewPlayer(c) EXCEPT !.tokens = st[1], !.bonus_points = st[2]]>>
        /\ location_decks = <<>>
        /\ action_deck = <<>>
        /\ first_to_safe_zone = 0
        /\ first_to_safe = FALSE
        /\ turns = 0
        /\ pc = "scoring"
        /\ cur = 1
        /\ ghost = NoGhost(1)
        /\ last = [op |-> "init"]

\* Player.add_card(card)
PlayerAddCard(p) ==
    /\ pc = "scoring" /\ cur = p
    /\ Len(players[p].inventory) < MaxHand
    /\ \E card \in ScoreCards : players' = [players EXCEPT ![p] = AddCard(@, card)]
    /\ last' = [op |-> "add_card"]
    /\ UNCHANGED <<engine, stream, phase, prep_round, location_decks, action_deck,
                   first_to_safe_zone, first_to_safe, turns, pc, cur, ghost>>

\* final_scoring, for player p: p.total_points(), p.get_combo_bonuses() and
\* p.combo_bonus_points() are called; none of them assigns anything.
FinalScoring(p) ==
    /\ pc = "scoring" /\ cur = p
    /\ last' = [op |-> "final_scoring",
                total |-> TotalPoints(players[p]),
                combos |-> GetComboBonuses(players[p]),
                combo_points |-> ComboBonusPoints(players[p])]
    /\ pc' = "scored"
    /\ UNCHANGED <<engine, stream, phase, prep_round, players, location_decks,
                   action_deck, first_to_safe_zone, first_to_safe, turns, cur, ghost>>

NextScore == PlayerAddCard(1) \/ FinalScoring(1)

\* The scoring of one player over every inventory of up to MaxHand cards.
SpecScore == InitScore /\ [][NextScore]_vars

\* ------------------------------------------------- action cards, one at a time

\* The inventories of the player an action card is resolved for: none, or
\* three blockers (of Bad Directions, Dehydration and Medical Emergency).
CardHands ==
    {<<>>,
     <<FirstNamed(Deck("Electronics Store"), "Hand Crank Radio"),
       FirstNamed(Deck("Grocery Store"), "Water Bottle"),
       FirstNamed(Deck("Pharmacy"), "First Aid Kit")>>}

\* The action deck of game.py at any moment of a game: what is left of a
\* shuffle after some draws.
ActionDecks ==
    {SubSeq(Shuffle(ACTION_CARDS, k), 1, m) : k \in 0..MaxShuffle, m \in 0..Len(ACTION_CARDS)}

\* A table of two in the disaster phase: seat 1 is about to resolve an action
\* card, anywhere on the path; seat 2 looks on.
InitCard ==
    \E e \in {"game", "sim", "eval"}, pos \in 0..SAFE_ZONE_INDEX, skips \in 0..1,
       one \in BOOLEAN, hand \in CardHands :
      \E deck \in IF e = "game" THEN ActionDecks ELSE {<<>>} :
        /\ engine = e
        /\ stream = "free"
        /\ phase = IF e = "game" THEN "disaster" ELSE "n/a"
        /\ prep_round = PREP_ROUNDS
        /\ players = <<[NewPlayer(1) EXCEPT !.position = pos, !.skipped_turns = skips,
                                            !.one_space_only = one, !.inventory = hand,
                                            !.tokens = 1],
                       [NewPlayer(2) EXCEPT !.inventory = <<Last(Deck("Home"))>>,
                                            !.tokens = 1]>>
        /\ location_decks = ShuffledDecks(0)
        /\ action_deck = deck
        /\ first_to_safe_zone = 0
        /\ first_to_safe = FALSE
        /\ turns = 0
        /\ pc = "card"
        /\ cur = 1
        /\ ghost = NoGhost(2)
        /\ last = [op |-> "init"]

\* resolve_action_card(player) of game.py.
ResolveActionCard(p) ==
    /\ engine = "game" /\ pc = "card" /\ cur = p
    /\ ghost.draws < MaxDraws
    /\ \E k \in IF action_deck = <<>> THEN 0..MaxShuffle ELSE {0} :
         LET d     == DrawActionCard(action_deck, k)
             asked == GameBlockerOffered(players[p], d.card)
         IN  \E use \in IF asked THEN BOOLEAN ELSE {FALSE} :
               /\ players' = [players EXCEPT ![p] = GameResolved(@, d.card, use)]
               /\ action_deck' = d.deck
               /\ last' = [op |-> "card", p |-> p, title |-> d.card.title,
                           blocker |-> d.card.blocker, asked |-> asked, use |-> use,
                           was |-> players[p].position]
    /\ ghost' = [ghost EXCEPT !.draws = @ + 1]
    /\ UNCHANGED <<engine, stream, phase, prep_round, location_decks,
                   first_to_safe_zone, first_to_safe, turns, pc, cur>>

\* _resolve_action_card(p) of sim_game_options.py; the policy's use_blocker is
\* called only once `blocker and p.has_card(blocker)` holds.
SimResolveActionCard(p) ==
    /\ engine = "sim" /\ pc = "card" /\ cur = p
    /\ ghost.draws < MaxDraws
    /\ \E card \in HeadlessCards :
         LET asked == card.blocker /= "" /\ HasCard(players[p], card.blocker)
         IN  \E says \in IF asked THEN PolicySays ELSE {FALSE} :
               /\ players' = [players EXCEPT ![p] = SimResolved(@, card, says)]
               /\ last' = [op |-> "card", p |-> p, title |-> card.title,
                           blocker |-> card.blocker, asked |-> asked, use |-> says,
                           was |-> players[p].position]
    /\ ghost' = [ghost EXCEPT !.draws = @ + 1]
    /\ UNCHANGED <<engine, stream, phase, prep_round, location_decks, action_deck,
                   first_to_safe_zone, first_to_safe, turns, pc, cur>>

\* _action_card(p, pol) of multi_strategy_eval.py.
EvalActionCard(p) ==
    /\ engine = "eval" /\ pc = "card" /\ cur = p
    /\ ghost.draws < MaxDraws
    /\ \E card \in HeadlessCards :
         LET asked == card.blocker /= "" /\ HasCard(players[p], card.blocker)
         IN  \E says \in IF asked THEN PolicySays ELSE {FALSE} :
               /\ players' = [players EXCEPT ![p] = EvalResolved(@, card, says)]
               /\ last' = [op |-> "card", p |-> p, title |-> card.title,
                           blocker |-> card.blocker, asked |-> asked, use |-> says,
                           was |-> players[p].position]
    /\ ghost' = [ghost EXCEPT !.draws = @ + 1]
    /\ UNCHANGED <<engine, stream, phase, prep_round, location_decks, action_deck,
                   first_to_safe_zone, first_to_safe, turns, pc, cur>>

NextCard == ResolveActionCard(1) \/ SimResolveActionCard(1) \/ EvalActionCard(1)

\* The resolution of up to MaxDraws action cards in a row, in each engine.
SpecCard == InitCard /\ [][NextCard]_vars

\* ------------------------------------------------ game.py: the action deck alone

\* Calls of draw_action_card explored in one game (the code has no cap).
MaxDeckDraws == 20

\* WildfireGame.__init__, `self.action_deck = ACTION_CARDS.copy()` and its
\* shuffle; ghost.drawn lists the ids of the cards drawn so far.
InitDeck ==
    \E k \in 0..MaxShuffle :
        /\ engine = "game"
        /\ stream = "free"
        /\ phase = "disaster"
        /\ prep_round = PREP_ROUNDS
        /\ players = [p \in 1..MIN_PLAYERS |-> NewPlayer(p)]
        /\ location_decks = ShuffledDecks(k)
        /\ action_deck = Shuffle(ACTION_CARDS, k)
        /\ first_to_safe_zone = 0
        /\ first_to_safe = FALSE
        /\ turns = 0
        /\ pc = "draw"
        /\ cur = 1
        /\ ghost = [draws |-> 0, drawn |-> <<>>]
        /\ last = [op |-> "init"]

\* One call of draw_action_card.
DrawActionCardCall ==
    /\ engine = "game" /\ pc = "draw"
    /\ ghost.draws < MaxDeckDraws
    /\ \E k \in IF action_deck = <<>> THEN 0..MaxShuffle ELSE {0} :
         LET d == DrawActionCard(action_deck, k)
         IN  /\ action_deck' = d.deck
             /\ ghost' = [draws |-> ghost.draws + 1, drawn |-> Append(ghost.drawn, d.card.id)]
             /\ last' = [op |-> "draw", title |-> d.card.title,
                         refilled |-> action_deck = <<>>]
    /\ UNCHANGED <<engine, stream, phase, prep_round, players, location_decks,
                   first_to_safe_zone, first_to_safe, turns, pc, cur>>

NextDeck == DrawActionCardCall

\* The action deck of one game of game.py, card after card.
SpecDeck == InitDeck /\ [][NextDeck]_vars

\* ------------------------------------------------------- ranking and the winner

\* A stable sort that puts a player before the players it ties with.
InsertBeforeTies(ranked, ps, p) ==
    LET ahead == {i \in 1..Len(ranked) :
                    \A j \in 1..i : TotalPoints(ps[ranked[j]]) > TotalPoints(ps[p])}
        k == Cardinality(ahead)
    IN  SubSeq(ranked, 1, k) \o <<p>> \o SubSeq(ranked, k + 1, Len(ranked))

\* One insertion of sorted(..., key = total_points, reverse = True): seat p, met
\* after the seats of ranked, goes behind every seat whose total is not smaller
\* (the sort is stable, also under reverse).
InsertRanked(ranked, ps, p) ==
    LET ahead == {i \in 1..Len(ranked) :
                    \A j \in 1..i : TotalPoints(ps[ranked[j]]) >= TotalPoints(ps[p])}
        k == Cardinality(ahead)
    IN  SubSeq(ranked, 1, k) \o <<p>> \o SubSeq(ranked, k + 1, Len(ranked))

\* sorted(self.players, key = lambda p: p.total_points(), reverse = True), as
\* the list of the first n seats.
RECURSIVE Ranked(_, _)
Ranked(ps, n) == IF n = 0 THEN <<>> ELSE InsertRanked(Ranked(ps, n - 1), ps, n)

\* max(players, key = lambda p: p.total_points()) over the first n seats: a
\* later seat replaces the best seen so far only with a strictly greater total.
RECURSIVE MaxByPoints(_, _)
MaxByPoints(ps, n) ==
    IF n = 1 THEN 1
    ELSE LET best == MaxByPoints(ps, n - 1)
         IN  IF TotalPoints(ps[n]) > TotalPoints(ps[best]) THEN n ELSE best

\* The inventories of the players ranked: none, one card, or the Go-Kit.
RankHands ==
    {<<>>,
     <<FirstNamed(Deck("Grocery Store"), "Water Bottle")>>,
     <<FirstNamed(Deck("Grocery Store"), "Water Bottle"),
       FirstNamed(Deck("Pharmacy"), "First Aid Kit"),
       FirstNamed(Deck("Grocery Store"), "Canned Food")>>}

\* The table at the end of a game: three players, the Community Leader among
\* them, with their tokens, their cards and (seat 2 or nobody) the +5.
InitRank ==
    \E e \in {"game", "eval"}, t \in [1..3 -> 0..MaxTokens], h \in [1..3 -> RankHands],
       b \in {0, FIRST_ARRIVAL_BONUS} :
        /\ engine = e
        /\ stream = "free"
        /\ phase = IF e = "game" THEN "disaster" ELSE "n/a"
        /\ prep_round = PREP_ROUNDS
        /\ players = [p \in 1..3 |->
                        [NewPlayer(p + 2) EXCEPT !.tokens = t[p], !.inventory = h[p],
                                                 !.bonus_points = IF p = 2 THEN b ELSE 0]]
        /\ location_decks = <<>>
        /\ action_deck = <<>>
        /\ first_to_safe_zone = 0
        /\ first_to_safe = FALSE
        /\ turns = 0
        /\ pc = "scoring"
        /\ cur = 1
        /\ ghost = NoGhost(3)
        /\ last = [op |-> "init"]

\* final_scoring of game.py: ranked, and winner = ranked[0].
FinalScoringWinner ==
    /\ engine = "game" /\ pc = "scoring"
    /\ LET ranked == Ranked(players, NumPlayers)
       IN  last' = [op |-> "final_scoring", ranked |-> ranked, winner |-> ranked[1],
                    total |-> TotalPoints(players[ranked[1]])]
    /\ pc' = "scored"
    /\ UNCHANGED <<engine, stream, phase, prep_round, players, location_decks,
                   action_deck, first_to_safe_zone, first_to_safe, turns, cur, ghost>>

\* run of multi_strategy_eval.py after g.play():
\* `if hero is max(players, key = ...): wins += 1`, hero = players[0].
EvalCountWin ==
    /\ engine = "eval" /\ pc = "scoring"
    /\ last' = [op |-> "run", score |-> TotalPoints(players[1]),
                win |-> MaxByPoints(players, NumPlayers) = 1]
    /\ pc' = "scored"
    /\ UNCHANGED <<engine, stream, phase, prep_round, players, location_decks,
                   action_deck, first_to_safe_zone, first_to_safe, turns, cur, ghost>>

NextRank == FinalScoringWinner \/ EvalCountWin

\* The ranking of a finished table.
SpecRank == InitRank /\ [][NextRank]_vars

\* ------------------------------------------------ the random sources of a run

\* random.Random(seed): the stream is a function of the seed. The call-th
\* shuffle made on the instance is explored as the rotation SeededCut(seed, call),
\* the choices of the starting deal as SeededDeal(n, seed).
Seeds == 0..MaxShuffle
SeededCut(seed, call) == (seed + call) % (MaxShuffle + 1)
SeededDeal(n, seed) == IF seed % 2 = 0 THEN EntryDeal(n) ELSE DrainDeal(n)

\* The state of a random source that no argument of the run sets: the module's
\* own instance behind random.shuffle (seeded at import from the system, and
\* advanced by every call), and an instance built by random.Random().
Unseeded == 0..MaxShuffle

\* Players named in table order with the characters chars, and the decks as shuffled.
TableWorld(chars, k) ==
    [players |-> [p \in 1..Len(chars) |-> [NewPlayer(p) EXCEPT !.character = chars[p]]],
     decks   |-> ShuffledDecks(k)]

\* SimulationRunner(games, n, seed, policy).run_one_game(): _setup_players
\* shuffles the characters with self.rng, AutoGame shuffles the decks with it,
\* _deal_starting_resources and the policy draw from it.
SeededSimGame(n, seed) ==
    EntryPrep("sim",
        DealStartingResources(
            TableWorld(SubSeq(Shuffle(CharNames, SeededCut(seed, 0)), 1, n),
                       SeededCut(seed, 1)),
            SeededDeal(n, seed), 1),
        0).players

\* run(players_per_game = n, seed): chosen = [profile] + [the others][:n - 1],
\* then random.shuffle(chosen), on the module's instance (state g).
Chosen(n, g) ==
    Shuffle(<<CharNames[1]>> \o SubSeq(CharNames, 2, n), g)

\* One game of run: the table, AutoGame(players, pols, rng) and g.play().
SeededEvalGame(n, seed, g) ==
    EntryPrep("eval", TableWorld(Chosen(n, g), SeededCut(seed, 0)), 0).players

\* WildfireGame(players): self.rng = random.Random() (state g) shuffles the
\* decks and deals the starting cards.
UnseededGame(n, g) ==
    EntryPrep("game",
        DealStartingResources(TableWorld(SubSeq(CharNames, 1, n), g),
                              IF g % 2 = 0 THEN EntryDeal(n) ELSE DrainDeal(n), 1),
        0).players

Scores(ps) == [p \in DOMAIN ps |-> TotalPoints(ps[p])]

\* A process in which nothing has run yet.
InitSeed ==
    /\ engine \in {"game", "sim", "eval"}
    /\ stream = "free"
    /\ phase = "n/a"
    /\ prep_round = 0
    /\ players = <<>>
    /\ location_decks = <<>>
    /\ action_deck = <<>>
    /\ first_to_safe_zone = 0
    /\ first_to_safe = FALSE
    /\ turns = 0
    /\ pc = "seed"
    /\ cur = 1
    /\ ghost = [first |-> <<>>]
    /\ last = [op |-> "init"]

\* What a run leaves behind: its players; the second run of a process is made
\* with the arguments of the first, whose players ghost.first keeps.
Ran(result, record) ==
    /\ pc \in {"seed", "ran"}
    /\ pc = "ran" => (record.n = last.n /\ record.seed = last.seed)
    /\ players' = result
    /\ ghost' = IF pc = "ran" THEN [first |-> players] ELSE ghost
    /\ pc' = IF pc = "seed" THEN "ran" ELSE "reran"
    /\ last' = [record EXCEPT !.scores = Scores(result)]
    /\ UNCHANGED <<engine, stream, phase, prep_round, location_decks, action_deck,
                   first_to_safe_zone, first_to_safe, turns, cur>>

SimRunSeeded(n, seed) ==
    /\ engine = "sim"
    /\ Ran(SeededSimGame(n, seed),
           [op |-> "SimulationRunner", n |-> n, seed |-> seed, scores |-> <<>>])

EvalRunSeeded(n, seed) ==
    /\ engine = "eval"
    /\ \E g \in Unseeded :
         Ran(SeededEvalGame(n, seed, g),
             [op |-> "run", n |-> n, seed |-> seed, scores |-> <<>>])

\* WildfireGame(players).run() takes no seed and no random source.
GameRunUnseeded(n) ==
    /\ engine = "game"
    /\ \E g \in Unseeded :
         Ran(UnseededGame(n, g),
             [op |-> "WildfireGame", n |-> n, seed |-> "none", scores |-> <<>>])

NextSeed ==
    \/ \E n \in MIN_PLAYERS..MAX_PLAYERS, seed \in Seeds : SimRunSeeded(n, seed)
    \/ \E n \in MIN_PLAYERS..MAX_PLAYERS, seed \in Seeds : EvalRunSeeded(n, seed)
    \/ \E n \in MIN_PLAYERS..MAX_PLAYERS : GameRunUnseeded(n)

\* Two runs of an engine with the same arguments.
SpecSeed == InitSeed /\ [][NextSeed]_vars

\* ------------------------------- one disaster turn of each engine, on given inputs

\* The inputs one turn can consume: the movement value (game.py rolls
\* 2 * randint(1, 3), the headless engines randint(1, 6); the values both can
\* roll are explored), the answers on the token, the gamble and the blocker,
\* the gamble roll (both sides of `roll >= 5`), the card drawn, and whether
\* somebody arrived before.
TurnInputs ==
    [die : GameDie, spend : BOOLEAN, gamble : BOOLEAN, roll : {4, 5},
     card : Range(ACTION_CARDS), use : BOOLEAN, first : BOOLEAN]

\* A delayed turn that wipes the delay out.
GameTurnClearsSkips(pl, in) ==
    IF pl.reached_safe_zone THEN pl
    ELSE IF pl.skipped_turns > 0 THEN [pl EXCEPT !.skipped_turns = 0]
    ELSE LET m == GameMoved(pl, in.die, GameTokenOffered(pl) /\ in.spend)
             g == IF GameGambleOffered(m) /\ in.gamble THEN GameGambled(m, in.roll) ELSE m
             r == IF GameOnRedSpace(g) THEN GameResolved(g, in.card, in.use) ELSE g
         IN  GameArrived(r, ~in.first)

\* take_disaster_turn(player) of game.py on the inputs in.
GameTurnWith(pl, in) ==
    IF pl.reached_safe_zone THEN pl
    ELSE IF pl.skipped_turns > 0 THEN [pl EXCEPT !.skipped_turns = @ - 1]
    ELSE LET m == GameMoved(pl, in.die, GameTokenOffered(pl) /\ in.spend)
             g == IF GameGambleOffered(m) /\ in.gamble THEN GameGambled(m, in.roll) ELSE m
             r == IF GameOnRedSpace(g) THEN GameResolved(g, in.card, in.use) ELSE g
         IN  GameArrived(r, ~in.first)

\* The body of `for p in self.players` in sim_game_options' _disaster_phase.
SimTurnWith(pl, in) ==
    IF pl.reached_safe_zone THEN pl
    ELSE IF pl.skipped_turns > 0 THEN [pl EXCEPT !.skipped_turns = @ - 1]
    ELSE LET m == SimMoved(pl, in.die, SimSpendToken(pl.tokens, in.spend))
             g == IF m.position \in SHORTCUT_SPACES /\ in.gamble
                  THEN SimGambled(m, in.roll) ELSE m
             r == IF g.position \in RED_SPACES THEN SimResolved(g, in.card, in.use) ELSE g
         IN  SimArrived(r, in.first)

\* The body of `for p, pol in zip(...)` in multi_strategy_eval's _disaster_phase.
EvalTurnWith(pl, in) ==
    IF pl.reached_safe_zone \/ pl.skipped_turns /= 0
    THEN [pl EXCEPT !.skipped_turns = @ - (IF @ > 0 THEN 1 ELSE 0)]
    ELSE LET m == EvalMoved(pl, in.die, EvalSpendToken(pl.tokens, in.spend))
             g == IF m.position \in SHORTCUT_SPACES /\ in.gamble
                  THEN EvalGambled(m, in.roll) ELSE m
             r == IF g.position \in RED_SPACES THEN EvalResolved(g, in.card, in.use) ELSE g
         IN  EvalArrived(r, in.first)

\* The players a disaster turn moves: on the way, not delayed.
MovingPlayers ==
    {[NewPlayer(1) EXCEPT !.position = pos, !.one_space_only = one, !.tokens = tok,
                          !.inventory = hand] :
        pos \in 0..(SAFE_ZONE_INDEX - 1), one \in BOOLEAN, tok \in {0, MaxTokens},
        hand \in CardHands}

\* The players a disaster turn passes over: delayed on the way (and then not
\* under Road Block, which no delayed player of a game is), or arrived.
WaitingPlayers ==
    {[NewPlayer(1) EXCEPT !.position = pos, !.skipped_turns = skips,
                          !.tokens = tok, !.inventory = hand] :
        pos \in 0..(SAFE_ZONE_INDEX - 1), skips \in 1..2,
        tok \in {0, MaxTokens}, hand \in CardHands}
    \cup
    {[NewPlayer(1) EXCEPT !.position = SAFE_ZONE_INDEX, !.reached_safe_zone = TRUE,
                          !.tokens = tok, !.inventory = hand] :
        tok \in {0, MaxTokens}, hand \in CardHands}

\* The inputs that would take a player furthest, had the turn consumed them: the
\* highest die, a winning gamble roll, the first arrival still to be awarded.
EagerInputs ==
    [die : {6}, spend : BOOLEAN, gamble : BOOLEAN, roll : {5},
     card : Range(ACTION_CARDS), use : BOOLEAN, first : {FALSE}]

\* A player and the inputs of the turn: every input for a player who moves, the
\* eager ones for a player who is passed over.
TurnStarts ==
    (MovingPlayers \X TurnInputs) \cup (WaitingPlayers \X EagerInputs)

\* Three tables in the same state, one per engine (seat 1 is played by game.py,
\* seat 2 by sim_game_options.py, seat 3 by multi_strategy_eval.py), and the
\* inputs of the turn, which last keeps. Each table has its own record of the
\* first arrival: first_to_safe_zone of game.py (when somebody arrived before,
\* a player of that table who is not shown, seat 4), first_to_safe of the
\* simulator and first of the evaluation, kept per seat in first_to_safe.
InitTurn ==
    \E start \in TurnStarts :
      LET pl == start[1]
          in == start[2]
      IN
        /\ engine = "game"
        /\ stream = "free"
        /\ phase = "disaster"
        /\ prep_round = PREP_ROUNDS
        /\ players = <<pl, pl, pl>>
        /\ location_decks = ShuffledDecks(0)
        /\ action_deck = <<>>
        /\ first_to_safe_zone = IF in.first THEN 4 ELSE 0
        /\ first_to_safe = [q \in 2..3 |-> in.first]
        /\ turns = 0
        /\ pc = "turn"
        /\ cur = 1
        /\ ghost = NoGhost(3)
        /\ last = [op |-> "inputs", in |-> in]

\* Seat q arrives with the turn that makes pl of it.
ArrivesAs(q, pl) == ~players[q].reached_safe_zone /\ pl.reached_safe_zone

GameTurnGiven ==
    /\ engine = "game" /\ pc = "turn" /\ cur = 1
    /\ LET pl == GameTurnWith(players[1], [last.in EXCEPT !.first = first_to_safe_zone /= 0])
       IN  /\ players' = [players EXCEPT ![1] = pl]
           /\ first_to_safe_zone' =
                  IF ArrivesAs(1, pl) /\ first_to_safe_zone = 0 THEN 1 ELSE first_to_safe_zone
    /\ engine' = "sim" /\ cur' = 2
    /\ UNCHANGED <<stream, phase, prep_round, location_decks, action_deck,
                   first_to_safe, turns, pc, ghost, last>>

SimTurnGiven ==
    /\ engine = "sim" /\ pc = "turn" /\ cur = 2
    /\ LET pl == SimTurnWith(players[2], [last.in EXCEPT !.first = first_to_safe[2]])
       IN  /\ players' = [players EXCEPT ![2] = pl]
           /\ first_to_safe' = [first_to_safe EXCEPT ![2] = @ \/ ArrivesAs(2, pl)]
    /\ engine' = "eval" /\ cur' = 3
    /\ UNCHANGED <<stream, phase, prep_round, location_decks, action_deck,
                   first_to_safe_zone, turns, pc, ghost, last>>

EvalTurnGiven ==
    /\ engine = "eval" /\ pc = "turn" /\ cur = 3
    /\ LET pl == EvalTurnWith(players[3], [last.in EXCEPT !.first = first_to_safe[3]])
       IN  /\ players' = [players EXCEPT ![3] = pl]
           /\ first_to_safe' = [first_to_safe EXCEPT ![3] = @ \/ ArrivesAs(3, pl)]
    /\ pc' = "compared"
    /\ UNCHANGED <<engine, stream, phase, prep_round, location_decks, action_deck,
                   first_to_safe_zone, turns, cur, ghost, last>>

NextTurn == GameTurnGiven \/ SimTurnGiven \/ EvalTurnGiven

\* One and the same turn, played by each engine.
SpecTurn == InitTurn /\ [][NextTurn]_vars

\* ----------------------------------------------------------------- properties

Interactive == engine = "game"
Headless == engine \in {"sim", "eval"}
InDisaster == pc \in {"disaster_turn", "trading", "sim_turn", "eval_turn", "done"}
Safe == {p \in Players : players[p].reached_safe_zone}
Awarded == {p \in Players : ghost.awards[p] > 0}
\* The step is seat p's disaster turn.
TurnOf(p) == pc \in {"disaster_turn", "sim_turn", "eval_turn"} /\ cur = p /\ last' /= last
\* Seat p arrives at the Safe Zone in this step.
Arrives(p) == ~players[p].reached_safe_zone /\ players'[p].reached_safe_zone

\* C1 (as the specification states it): whenever disaster_phase of game.py has
\* returned, every player of the game has reached the Safe Zone.
C1_AllSafeOnReturn == (Interactive /\ pc = "done") => AllSafe(players)

\* The slot and the awards in a state of game.py.
C2_SlotAndAwards ==
    Interactive =>
        /\ first_to_safe_zone \in Players \cup {0}
        /\ (first_to_safe_zone = 0) <=>
               (\A p \in Players : players[p].position < SAFE_ZONE_INDEX)
        /\ Awarded = {first_to_safe_zone} \ {0}
        /\ \A p \in Players : ghost.awards[p] <= 1
        /\ pc = "done" => Cardinality(Awarded) = 1

\* The slot and the bonus across a step of game.py.
C2_SlotStep ==
    Interactive =>
        /\ first_to_safe_zone /= 0 => first_to_safe_zone' = first_to_safe_zone
        /\ \A p \in Players :
             /\ (first_to_safe_zone = 0 /\ first_to_safe_zone' = p) =>
                   /\ TurnOf(p)
                   /\ players'[p].position = SAFE_ZONE_INDEX
                   /\ players'[p].bonus_points = players[p].bonus_points + FIRST_ARRIVAL_BONUS
                   /\ ghost'.awards[p] = ghost.awards[p] + 1
             /\ players'[p].bonus_points > players[p].bonus_points =>
                   first_to_safe_zone = 0 /\ first_to_safe_zone' = p
             /\ ghost'.awards[p] /= ghost.awards[p] =>
                   first_to_safe_zone = 0 /\ first_to_safe_zone' = p

\* C2: in game.py the first-arrival slot is empty exactly as long as no player
\* stands on SAFE_ZONE_INDEX; the step that fills it names the arriving player
\* and adds 5 to that player's bonus_points; it is never reassigned; no step
\* raises anyone else's bonus_points; once disaster_phase has returned exactly
\* one player has received the +5.
C2_ExactlyOneFirstArrival == [] C2_SlotAndAwards /\ [][C2_SlotStep]_vars

\* A finished game of game.py whose second seat arrived first and holds the +5.
C2_Witness ==
    /\ Interactive /\ pc = "done" /\ first_to_safe_zone = 2
    /\ players[2].bonus_points = FIRST_ARRIVAL_BONUS
    /\ ~players[1].reached_safe_zone

C3_AtMostOne ==
    Headless =>
        /\ Cardinality(Awarded) <= 1
        /\ \A p \in Players : ghost.awards[p] <= 1
        /\ first_to_safe <=> Safe /= {}
        /\ Safe /= {} <=> Awarded /= {}
        /\ pc = "done" =>
              /\ engine = "eval" => AllSafe(players)
              /\ Awarded = {} => engine = "sim" /\ turns = SIM_MAX_TURNS

\* An arrival across a step of a headless engine.
C3_ArrivalStep ==
    Headless =>
        \A p \in Players :
            /\ Arrives(p) =>
                  /\ TurnOf(p)
                  /\ players'[p].bonus_points = players[p].bonus_points
                        + (IF first_to_safe THEN 0 ELSE FIRST_ARRIVAL_BONUS)
                  /\ ghost'.awards[p] = ghost.awards[p] + (IF first_to_safe THEN 0 ELSE 1)
            /\ players'[p].bonus_points > players[p].bonus_points =>
                  Arrives(p) /\ ~first_to_safe
            /\ ghost'.awards[p] /= ghost.awards[p] => Arrives(p) /\ ~first_to_safe

C4_PositionInPath ==
    \A p \in Players : players[p].position >= 0 /\ players[p].position <= SAFE_ZONE_INDEX

\* A disaster turn whose movement would have passed the Safe Zone and was cut there.
C4_Witness ==
    /\ last.op = "turn" /\ ghost.cuts > 0
    /\ players[last.p].position = SAFE_ZONE_INDEX
    /\ players[last.p].reached_safe_zone

\* Nobody owes tokens.
C5_TokensNonNegative == \A p \in Players : players[p].tokens >= 0

\* A step that lowers a player's tokens.
C5_SpendStep ==
    \A p \in Players :
        players'[p].tokens < players[p].tokens =>
            /\ TurnOf(p)
            /\ players[p].tokens >= 1
            /\ players'[p].tokens = players[p].tokens - 1

\* C5: in every state of every engine each player's tokens are at least 0, and a
\* step lowers a player's tokens only in that player's own disaster turn, only
\* when the player held at least one, and by exactly one.
C5_TokensSpentOneAtATime == [] C5_TokensNonNegative /\ [][C5_SpendStep]_vars

\* A disaster turn of multi_strategy_eval.py in which the player spent its last token.
C5_Witness ==
    /\ engine = "eval" /\ InDisaster /\ last.op = "turn"
    /\ players[last.p].tokens = 0
    /\ players[last.p].position > TOKEN_MOVE

\* The places of the inventories, and the card objects (origin, id) found in
\* the inventories and in the decks.
HandPlaces == UNION {{<<p, i>> : i \in 1..Len(players[p].inventory)} : p \in Players}
CardAt(pi) == players[pi[1]].inventory[pi[2]]
HandKeys == {<<CardAt(pi).origin, CardAt(pi).id>> : pi \in HandPlaces}
DeckKeys ==
    UNION {{<<loc, location_decks[loc][i].id>> : i \in 1..Len(location_decks[loc])} :
             loc \in DOMAIN LOCATIONS}
AllKeys == UNION {{<<loc, id>> : id \in 1..Len(LOCATIONS[loc])} : loc \in DOMAIN LOCATIONS}
\* Every card lying anywhere is one the location was built with.
Genuine(card) ==
    /\ card.origin \in DOMAIN LOCATIONS
    /\ card.id \in 1..Len(LOCATIONS[card.origin])
    /\ card.name = LOCATIONS[card.origin][card.id][1]
    /\ card.points = LOCATIONS[card.origin][card.id][2]

\* C6: in every state, for every location, the cards left in its deck plus the
\* cards of that origin in all inventories make up its initial deck size (the
\* code keeps no discard pile), and every card object is in exactly one place:
\* one position of its deck or one position of one inventory.
C6_CardConservation ==
    /\ \A loc \in DOMAIN LOCATIONS :
         /\ Len(location_decks[loc])
              + Cardinality({pi \in HandPlaces : CardAt(pi).origin = loc})
            = Len(LOCATIONS[loc])
         /\ Cardinality({location_decks[loc][i].id : i \in 1..Len(location_decks[loc])})
            = Len(location_decks[loc])
         /\ \A i \in 1..Len(location_decks[loc]) :
              Genuine(location_decks[loc][i]) /\ location_decks[loc][i].origin = loc
    /\ \A pi \in HandPlaces : Genuine(CardAt(pi))
    /\ Cardinality(HandKeys) = Cardinality(HandPlaces)
    /\ HandKeys \cap DeckKeys = {}
    /\ HandKeys \cup DeckKeys = AllKeys

\* A preparation turn of game.py that visited the Gas Station after the starting
\* deal and earlier visits had emptied its deck.
C6_Witness ==
    /\ Interactive /\ last.op = "prep" /\ last.choice = "4"
    /\ location_decks["Gas Station"] = <<>>
    /\ ghost.visits > Len(LOCATIONS["Gas Station"])

\* The step is a trade proposal of seat last'.p in trading_phase.
Proposal == Interactive /\ pc = "trading" /\ ghost'.trades = ghost.trades + 1
\* The proposer, and the eligible partners carrying the name that was typed.
ProposerX == last'.p
Eligible == {q \in Players \ {ProposerX} :
               ~players[q].reached_safe_zone /\ players[q].inventory /= <<>>}
Named == {q \in Eligible : PLAYER_NAMES[q] = last'.partner}
\* Everything of a player but the inventory.
Fields(pl) == [pl EXCEPT !.inventory = <<>>]
Others == <<engine, stream, phase, prep_round, location_decks, action_deck,
            first_to_safe_zone, first_to_safe, turns>>

\* A step in which trading_phase reports a successful trade.
C7_SwapStep ==
    (Proposal /\ last'.said = "Trade successful") =>
        \E Y \in Named :
            LET X == ProposerX
                A == FirstNamed(players[X].inventory, last'.give)
                B == FirstNamed(players[Y].inventory, last'.take)
            IN  /\ A.name = last'.give /\ B.name = last'.take
                /\ Range(players'[X].inventory) = (Range(players[X].inventory) \ {A}) \cup {B}
                /\ Range(players'[Y].inventory) = (Range(players[Y].inventory) \ {B}) \cup {A}
                /\ Len(players'[X].inventory) = Len(players[X].inventory)
                /\ Len(players'[Y].inventory) = Len(players[Y].inventory)
                /\ \A p \in Players \ {X, Y} : players'[p].inventory = players[p].inventory
                /\ \A p \in Players : Fields(players'[p]) = Fields(players[p])
                /\ UNCHANGED Others

C8_FailedStep ==
    (/\ Proposal
     /\ \/ Named = {}
        \/ last'.give \notin NamesHeld(players[ProposerX])
        \/ \A Y \in Named : last'.take \notin NamesHeld(players[Y]))
    => /\ players' = players
       /\ UNCHANGED Others
       /\ last'.said /= "Trade successful"
       /\ IF cur < NumPlayers THEN pc' = "trading" /\ cur' = cur + 1
          ELSE pc' = "disaster_turn" /\ cur' = 1

\* C8: a proposal whose give-card is not in the proposer's inventory, or whose
\* take-card is not in the partner's, or whose partner name is not that of an
\* eligible partner, changes nothing: every player, inventory and deck is as
\* before, and play passes to the next seat (or, after the last seat, to the
\* next round of turns).
C8_FailedTradeChangesNothing == [][C8_FailedStep]_vars

\* A proposal that named a card the eligible partner does not hold.
C8_Witness ==
    /\ last.op = "trade" /\ last.said = "Trade failed - card not owned."
    /\ last.take = NoSuchCard
    /\ HasCard(players[last.p], last.give)

\* The step is a preparation turn of game.py that take_prep_turn completed.
PrepStep == Interactive /\ pc = "prep_turn" /\ last' /= last /\ last'.op = "prep"

\* The round counter and the phase in a state of game.py.
C9_RoundsInRange ==
    Interactive =>
        /\ prep_round \in 1..PREP_ROUNDS
        /\ phase \in {"prep", "disaster"}
        /\ phase = "disaster" <=> pc \notin {"prep_turn", "raised"}
        /\ \A p \in Players : ghost.prep_actions[p] <= PREP_ROUNDS

\* The round counter and the phase across a step of game.py.
C9_RoundStep ==
    Interactive =>
        /\ prep_round' >= prep_round
        /\ phase = "disaster" => phase' = "disaster"
        /\ (PrepStep /\ prep_round = PREP_ROUNDS /\ cur = NumPlayers) => phase' = "disaster"
        /\ (PrepStep /\ phase' = "prep") => ghost'.prep_actions[cur] = ghost.prep_actions[cur] + 1

\* C9 (as the specification states it): the preparation phase of game.py ends
\* in the disaster phase after at most 7 rounds, whatever is rolled and chosen:
\* prep_round stays in 1..7 and never decreases, no player takes more than 7
\* preparation turns, the turn that completes round 7 sets phase = "disaster",
\* phase never returns to "prep", and every preparation does reach
\* phase = "disaster".
C9_PrepEndsInDisaster ==
    /\ [] C9_RoundsInRange
    /\ [][C9_RoundStep]_vars
    /\ (Interactive /\ phase = "prep") ~> (phase = "disaster")

\* Round 7 was completed without the early spark and the phase became "disaster".
C9_Witness ==
    /\ Interactive /\ pc = "prep_done" /\ phase = "disaster"
    /\ last.op = "prep" /\ last.round = PREP_ROUNDS /\ last.p = NumPlayers /\ ~last.spark
    /\ \A p \in Players : ghost.prep_actions[p] = PREP_ROUNDS

\* C10 (as the specification states it): from round 4 the die is rolled at most
\* once per round, and only after every player has taken its action of the round.
C10_OncePerRound ==
    Interactive =>
        /\ ghost.round_rolls <= 1
        /\ (last.op = "prep" /\ last.rolled) => ghost.round_turns = NumPlayers

\* C10 (amended): from round 4 the die is rolled after each player's
\* preparation turn, so a round has as many rolls as players have acted in it;
\* a spark ends the phase at once, before the later seats of the round act; in
\* rounds 1 to 3 the die is never rolled.
C10_RollPerTurn ==
    Interactive =>
        /\ last.op = "prep" => (last.rolled <=> last.round > SPARK_AFTER_ROUND)
        /\ (last.op = "prep" /\ last.spark) =>
              /\ last.rolled /\ phase = "disaster" /\ pc = "prep_done"
              /\ ghost.round_turns = last.p
        /\ ghost.round_rolls = IF prep_round > SPARK_AFTER_ROUND THEN ghost.round_turns ELSE 0
        /\ ghost.round_turns <= NumPlayers

\* In a round after the third the die was rolled, and did not spark, after the
\* first seat's turn, before the second seat had acted.
C10_Witness ==
    /\ Interactive /\ pc = "prep_turn" /\ last.op = "prep"
    /\ last.p = 1 /\ last.rolled /\ ~last.spark /\ last.round > SPARK_AFTER_ROUND
    /\ cur = 2 /\ ghost.round_rolls = 1 /\ ghost.round_turns = 1

\* C11: in game.py, when the disaster die rolled after a player's preparation
\* turn shows 6, that same step sets phase = "disaster" and ends
\* preparation_phase: from then on no preparation turn can be taken by anybody,
\* and the seats after the roller have not taken their action of that round
\* (they stand one action behind the roller and the seats before it).
C11_SparkPreempts ==
    Interactive =>
        /\ (last.op = "prep" /\ last.six) =>
              /\ last.spark /\ phase = "disaster" /\ pc = "prep_done"
              /\ \A q \in Players :
                    ghost.prep_actions[q] = IF q <= last.p THEN last.round
                                            ELSE last.round - 1
        /\ phase = "disaster" => ~ENABLED (\E q \in Seats : GamePrepTurn(q))

\* The die showed 6 after the first seat's turn of round 4: the phase is
\* "disaster" and the second seat has taken three actions only.
C11_Witness ==
    /\ Interactive /\ last.op = "prep" /\ last.six /\ last.p = 1
    /\ last.round = SPARK_AFTER_ROUND + 1 /\ phase = "disaster"
    /\ NumPlayers >= 2 /\ ghost.prep_actions[2] = SPARK_AFTER_ROUND

\* The answers that are the number of a location, and the location they name.
LocationNumbers == {"1", "2", "3", "4", "5"}
LocationOf(choice) ==
    CASE choice = "1" -> "Home" [] choice = "2" -> "Grocery Store"
      [] choice = "3" -> "Pharmacy" [] choice = "4" -> "Gas Station"
      [] choice = "5" -> "Electronics Store"
\* Everything of the game but the players, the decks and the loop's position.
Table == <<engine, stream, action_deck, first_to_safe_zone, first_to_safe, turns>>

\* A preparation turn that visits a location.
C12_VisitStep ==
    (PrepStep /\ last'.choice \in LocationNumbers) =>
        LET p    == cur
            loc  == LocationOf(last'.choice)
            deck == location_decks[loc]
        IN  /\ IF deck /= <<>>
               THEN /\ location_decks' = [location_decks EXCEPT ![loc] = ButLast(deck)]
                    /\ players'[p] = [players[p] EXCEPT
                                         !.inventory = Append(@, Last(deck)),
                                         !.last_location = loc]
               ELSE /\ location_decks' = location_decks
                    /\ players'[p] = [players[p] EXCEPT !.last_location = loc]
            /\ \A q \in Players \ {p} : players'[q] = players[q]
            /\ DOMAIN players' = DOMAIN players
            /\ UNCHANGED Table

\* C12: in game.py a preparation turn that visits a location whose deck is not
\* empty removes exactly the last card of that deck and appends it to the
\* acting player's inventory; on an empty deck no deck and no inventory
\* changes; either way the player's last_location becomes that location, and
\* the player's tokens and other fields, the other players and the other decks
\* are as before.
C12_VisitDrawsLastCard == [][C12_VisitStep]_vars

\* A visit to the Gas Station that found its deck empty, by a player who drew
\* from that deck on an earlier visit and is recorded as standing there.
C12_Witness ==
    /\ Interactive /\ last.op = "prep" /\ last.choice = "4"
    /\ location_decks["Gas Station"] = <<>>
    /\ ghost.prep_actions[last.p] >= 2
    /\ players[last.p].last_location = "Gas Station"
    /\ Len(players[last.p].inventory) < STARTING_CARDS + ghost.prep_actions[last.p]
    /\ Len(players[last.p].inventory) > STARTING_CARDS

\* A preparation turn that clears the yard.
C13_TokenStep ==
    (PrepStep /\ last'.choice = "0") =>
        /\ players' = [players EXCEPT ![cur] =
                          [@ EXCEPT !.tokens = @ + 1, !.last_location = "Yard"]]
        /\ location_decks' = location_decks
        /\ UNCHANGED Table

\* C13: in game.py a preparation turn that answers "0" raises the acting
\* player's tokens by exactly 1 and sets its last_location to "Yard"; every
\* inventory, every location deck and every other player is as before.
C13_TakeTokenAddsOne == [][C13_TokenStep]_vars

\* A second yard clearing by the same player, who still holds only the two
\* starting cards.
C13_Witness ==
    /\ Interactive /\ last.op = "prep" /\ last.choice = "0"
    /\ players[last.p].tokens = 2
    /\ players[last.p].last_location = "Yard"
    /\ Len(players[last.p].inventory) = STARTING_CARDS

\* C14 (as the specification states it): a preparation turn of game.py whose
\* answer is neither "0" nor the number of a location never raises: no player,
\* inventory or deck changes, the turn counts as taken and play goes on to the
\* next seat.
C14_InvalidStep ==
    (/\ Interactive /\ pc = "prep_turn" /\ last' /= last
     /\ last'.choice \notin {"0"} \cup LocationNumbers)
    => /\ pc' /= "raised"
       /\ players' = players
       /\ location_decks' = location_decks
       /\ ghost'.prep_actions[cur] = ghost.prep_actions[cur] + 1

C14_InvalidChoiceWastesTurn == [][C14_InvalidStep]_vars

\* The answers other than SUPERSCRIPT TWO that are neither "0" nor a location:
\* the turn is consumed and nothing changes.
C14_OtherInvalidStep ==
    (/\ Interactive /\ pc = "prep_turn" /\ last' /= last
     /\ last'.choice \in {"6", "x"})
    => /\ pc' /= "raised"
       /\ players' = players
       /\ location_decks' = location_decks
       /\ ghost'.prep_actions[cur] = ghost.prep_actions[cur] + 1

C14_PlainInvalidWastesTurn == [][C14_OtherInvalidStep]_vars

\* take_prep_turn raised on the first seat's answer in round 2.
C14_Raised ==
    /\ pc = "raised" /\ last.op = "raise" /\ last.choice = SuperscriptTwo
    /\ last.round = 2 /\ phase = "prep"

\* A game object exists.
TableBuilt == pc = "prep_turn"

\* C15 (as the specification states it): no game is set up with a player count
\* outside 2..5: whenever an engine has been constructed its table has 2 to 5
\* players, and a rejected request has created no game state.
C15_NeverMalformed ==
    /\ TableBuilt => NumPlayers \in MIN_PLAYERS..MAX_PLAYERS
    /\ ~TableBuilt => players = <<>> /\ location_decks = <<>>

\* What does hold: the two entry points that test the count.
C15_EntryPointsTest ==
    /\ (TableBuilt /\ last.op \in {"choose_players", "main"}) =>
           NumPlayers \in MIN_PLAYERS..MAX_PLAYERS
    /\ ~TableBuilt => players = <<>> /\ location_decks = <<>>

\* WildfireGame was constructed on an empty list of players.
C15_EmptyTable ==
    /\ Interactive /\ TableBuilt /\ last.op = "WildfireGame" /\ players = <<>>
    /\ DOMAIN location_decks = DOMAIN LOCATIONS

\* The player under scoring, and the sum of the points of the cards at a set
\* of places of an inventory.
Scored == players[1]
RECURSIVE PointsAt(_, _)
PointsAt(inv, places) ==
    IF places = {} THEN 0
    ELSE LET i == CHOOSE i \in places : TRUE
         IN  inv[i].points + PointsAt(inv, places \ {i})
PlacesNamed(inv, name) == {i \in 1..Len(inv) : inv[i].name = name}
GoKitNames == {"Water Bottle", "First Aid Kit", "Canned Food"}
PrepperNames == GoKitNames \cup {"Important Documents", "1 Month of Medication"}
\* The points of the one best combo held, as the specification words it.
BestComboPoints(pl) ==
    IF PrepperNames \subseteq NamesHeld(pl) THEN 6
    ELSE IF GoKitNames \subseteq NamesHeld(pl) THEN 3 ELSE 0
\* total_points as the specification words it.
StatedTotal(pl) ==
    LET inv == pl.inventory
        ch  == CHARACTER_CARDS[pl.character]
    IN  PointsAt(inv, 1..Len(inv))
        + 2 * Cardinality(PlacesNamed(inv, ch.plus))
        + (IF ch.multiplier = "Neighborly Token" THEN 0
           ELSE PointsAt(inv, PlacesNamed(inv, ch.multiplier)))
        + pl.tokens * (IF pl.character = "Community Leader" THEN 4 ELSE 3)
        + pl.bonus_points
        + BestComboPoints(pl)

Exchanged(pl, i, j) ==
    [pl EXCEPT !.inventory = [@ EXCEPT ![i] = pl.inventory[j], ![j] = pl.inventory[i]]]

\* Exchanging two neighbouring cards of the inventory leaves the score as it
\* is; every inventory of up to MaxHand cards is scored, and the exchanges of
\* neighbours generate every permutation.
C17_OrderIndependent ==
    \A i \in 1..(Len(Scored.inventory) - 1) :
        TotalPoints(Exchanged(Scored, i, i + 1)) = TotalPoints(Scored)

\* The scoring step assigns nothing, and the value it returned is the value
\* of a second call.
C17_ScoringStep ==
    (pc = "scoring" /\ pc' = "scored") =>
        /\ players' = players
        /\ UNCHANGED <<location_decks, action_deck, first_to_safe_zone, first_to_safe,
                       phase, prep_round, turns, ghost>>
        /\ last'.total = TotalPoints(players'[1])

\* C17: total_points() depends on the inventory contents, tokens, character and
\* bonus_points only: the call changes no state, a second call returns the
\* same value, and exchanging two neighbouring cards of the inventory (hence
\* any permutation of it) leaves the value as it is.
C17_TotalPointsPure == [] C17_OrderIndependent /\ [][C17_ScoringStep]_vars

\* A Pet Owner scored with a Canned Food, its multiplier resource, at the end
\* of an inventory that begins with another card.
C17_Witness ==
    /\ pc = "scored" /\ last.op = "final_scoring"
    /\ Scored.character = "Pet Owner"
    /\ Len(Scored.inventory) = 3
    /\ Scored.inventory[1].name = "Water Bottle"
    /\ Scored.inventory[3].name = "Canned Food"
    /\ last.total = StatedTotal(Scored)

\* C18: combo_bonus_points() is 6 when every name of the Prepper Kit is in the
\* inventory (the Go-Kit names are then held too and add nothing), 3 when only
\* the Go-Kit names are all held, 0 otherwise, however many copies of a card
\* are held; get_combo_bonuses() names exactly the combo that counted.
C18_NoStacking ==
    /\ ComboBonusPoints(Scored) \in {0, 3, 6}
    /\ ComboBonusPoints(Scored) = 6 <=> PrepperNames \subseteq NamesHeld(Scored)
    /\ ComboBonusPoints(Scored) = 3 <=>
          (GoKitNames \subseteq NamesHeld(Scored) /\ ~(PrepperNames \subseteq NamesHeld(Scored)))
    /\ GetComboBonuses(Scored) =
          IF PrepperNames \subseteq NamesHeld(Scored) THEN <<"Prepper Kit Bonus">>
          ELSE IF GoKitNames \subseteq NamesHeld(Scored) THEN <<"Portable Go-Kit Bonus">>
          ELSE <<>>
    /\ last.op = "final_scoring" =>
          /\ last.combo_points = ComboBonusPoints(Scored)
          /\ last.combos = GetComboBonuses(Scored)

\* A player holding the whole Prepper Kit was scored: 6, not 9, under the name
\* of the Prepper Kit.
C18_Witness ==
    /\ pc = "scored" /\ last.op = "final_scoring"
    /\ PrepperNames \subseteq NamesHeld(Scored)
    /\ last.combo_points = 6 /\ last.combos = <<"Prepper Kit Bonus">>

\* The step resolves an action card for seat cur.
CardStep == pc = "card" /\ ghost'.draws = ghost.draws + 1
\* The player after the penalty of the specification's table.
TableEffect(pl, title) ==
    CASE title \in {"Flat Tire", "Heavy Smoke", "Blackout"} ->
                                       [pl EXCEPT !.skipped_turns = pl.skipped_turns + 1]
      [] title = "Medical Emergency" -> [pl EXCEPT !.skipped_turns = pl.skipped_turns + 2]
      [] title = "Road Block"        -> [pl EXCEPT !.one_space_only = TRUE]
      [] title = "Bad Directions"    ->
             [pl EXCEPT !.position = IF pl.position - 4 > 0 THEN pl.position - 4 ELSE 0]
      [] title \in {"Dehydration", "Food Spoilage"} ->
                                       [pl EXCEPT !.bonus_points = pl.bonus_points - 5]
\* Everything an action card has no business with.
Bystanders == <<location_decks, first_to_safe_zone, first_to_safe, phase, prep_round,
                turns, engine, stream>>

\* A resolution in which the penalty was not avoided.
C19_PenaltyStep ==
    (CardStep /\ ~last'.use) =>
        /\ players'[cur] = TableEffect(players[cur], last'.title)
        /\ players'[cur].position >= 0
        /\ players'[cur].inventory = players[cur].inventory
        /\ players'[cur].tokens = players[cur].tokens
        /\ \A q \in Players \ {cur} : players'[q] = players[q]
        /\ DOMAIN players' = DOMAIN players
        /\ UNCHANGED Bystanders

\* C19: in every engine, when the penalty of a drawn action card is applied,
\* the drawing player changes exactly as the table says (Flat Tire, Heavy
\* Smoke, Blackout: skipped_turns + 1; Medical Emergency: skipped_turns + 2;
\* Road Block: one_space_only = TRUE; Bad Directions: position =
\* max(0, position - 4), so 10 becomes 6 and 2 becomes 0; Dehydration, Food
\* Spoilage: bonus_points - 5) and nothing else changes: not the player's
\* inventory or tokens, not another player, not a location deck.
C19_PenaltyByTable == [][C19_PenaltyStep]_vars

\* Bad Directions caught a player on space 2 and left it on space 0.
C19_Witness ==
    /\ last.op = "card" /\ last.title = "Bad Directions" /\ ~last.use
    /\ last.was = 2 /\ players[last.p].position = 0

\* A resolution, with or without the blocker.
C20_BlockerStep ==
    CardStep =>
        LET pl == players[cur]
        IN  /\ last'.asked <=> (last'.blocker /= "" /\ HasCard(pl, last'.blocker))
            /\ last'.use => last'.asked
            /\ last'.use =>
                  /\ players' = players
                  /\ HasCard(players'[cur], last'.blocker)
                  /\ UNCHANGED Bystanders
            /\ ~last'.use => players'[cur] = TableEffect(pl, last'.title)

\* C20: in every engine the use-blocker decision is asked for exactly when the
\* drawn card names a blocker and the player holds a card of that name; when
\* the player uses it no penalty is applied and every player, the inventory
\* included, is as before, so the same card can block again; when the player
\* does not hold the blocker, or declines, the penalty of the table is applied.
C20_BlockerRule == [][C20_BlockerStep]_vars

\* sim_game_options.py: the same First Aid Kit avoided Medical Emergency twice
\* in a row.
C20_Witness ==
    /\ engine = "sim" /\ last.op = "card" /\ last.title = "Medical Emergency"
    /\ last.asked /\ last.use /\ ghost.draws = 2
    /\ players[last.p].skipped_turns = 0
    /\ HasCard(players[last.p], "First Aid Kit")
    /\ Len(players[last.p].inventory) = 3

\* The ids of the deck, of the fixed cards, and of one stretch of eight draws.
DeckIds == {action_deck[i].id : i \in 1..Len(action_deck)}
FixedIds == {ACTION_CARDS[i].id : i \in 1..Len(ACTION_CARDS)}
DrawnIn(k) ==
    {ghost.drawn[i] : i \in {j \in 1..Len(ghost.drawn) :
                               j > Len(ACTION_CARDS) * k /\ j <= Len(ACTION_CARDS) * (k + 1)}}

C21_DeckInv ==
    /\ Len(action_deck) \in 0..Len(ACTION_CARDS)
    /\ Range(action_deck) \subseteq Range(ACTION_CARDS)
    /\ Cardinality(DeckIds) = Len(action_deck)
    /\ \A k \in 0..(MaxDeckDraws \div Len(ACTION_CARDS)) :
         /\ Len(ghost.drawn) >= Len(ACTION_CARDS) * (k + 1) => DrawnIn(k) = FixedIds
         /\ Cardinality(DrawnIn(k)) =
              Min2(Max2(Len(ghost.drawn) - Len(ACTION_CARDS) * k, 0), Len(ACTION_CARDS))
    /\ (pc = "draw" /\ ghost.draws < MaxDeckDraws) => ENABLED DrawActionCardCall

C21_DrawStep ==
    (pc = "draw" /\ ghost'.draws = ghost.draws + 1) =>
        /\ last'.refilled <=> action_deck = <<>>
        /\ IF action_deck = <<>>
           THEN Len(action_deck') = Len(ACTION_CARDS) - 1
           ELSE /\ action_deck' = ButLast(action_deck)
                /\ last'.title = Last(action_deck).title
        /\ Len(ghost'.drawn) = Len(ghost.drawn) + 1

\* C21: the action deck of game.py always holds between 0 and 8 of the fixed
\* cards, none twice; a draw is always possible; the deck is refilled (with all
\* 8 cards) only when it is empty and otherwise a draw takes its last card; so
\* the draws number 8k+1 .. 8k+8 of a game are the 8 cards, each exactly once.
C21_CyclicDeck == [] C21_DeckInv /\ [][C21_DrawStep]_vars

\* Two full cycles were drawn and the deck is empty for the second time.
C21_Witness ==
    /\ pc = "draw" /\ Len(ghost.drawn) = 2 * Len(ACTION_CARDS) /\ action_deck = <<>>
    /\ DrawnIn(1) = FixedIds

C22_Returned ==
    /\ pc = "done" /\ first_to_safe_zone \in Players
    /\ players[first_to_safe_zone].position = SAFE_ZONE_INDEX
    /\ players[first_to_safe_zone].reached_safe_zone

\* C22: game.py's disaster phase, once started, always comes to its end: on
\* every sequence of die rolls, shuffles of the refilled action deck and
\* answers, with no cap on the cards drawn, some player reaches
\* SAFE_ZONE_INDEX and disaster_phase returns.
C22_DisasterPhaseEnds ==
    (Interactive /\ pc = "disaster_start") ~> C22_Returned

\* The phase returned after one player had lost points three times: the deck
\* holds two such cards, so it was drawn empty and refilled on the way.
C22_Witness ==
    /\ C22_Returned /\ stream = "long"
    /\ \E p \in Players : players[p].bonus_points <= -3 * POINT_PENALTY

\* sim_game_options.py: _disaster_phase has returned.
C23_SimReturnsAllSafe == (engine = "sim" /\ pc = "done") => AllSafe(players)

\* multi_strategy_eval.py: _disaster_phase, once called, returns.
C23_EvalReturns == (engine = "eval" /\ pc = "disaster_start") ~> pc = "done"

\* C23: a headless game, once started, runs to completion with every player
\* safe: _disaster_phase of multi_strategy_eval.py returns on every sequence of
\* rolls, drawn cards and policy answers, and _disaster_phase of
\* sim_game_options.py never returns while a player has reached_safe_zone = false.
C23_HeadlessCompletes == [] C23_SimReturnsAllSafe /\ C23_EvalReturns

\* multi_strategy_eval.py returns only with every player safe.
C23_EvalReturnsAllSafe == (engine = "eval" /\ pc = "done") => AllSafe(players)

\* Seat q could take part in a trade: not arrived, and holding a card.
CanTrade(q) == ~players[q].reached_safe_zone /\ players[q].inventory /= <<>>
Hand(ps, q) == Range(ps[q].inventory)

C24_TradingInv ==
    (Interactive /\ pc = "trading") =>
        /\ first_to_safe_zone = 0
        /\ \A q \in Players : ~players[q].reached_safe_zone
        /\ last.op \in {"turn", "no_trade", "trade"}
        /\ (last.op = "turn") => (last.p = NumPlayers /\ cur = 1)

C24_TradingStep ==
    /\ (Interactive /\ pc /= "trading" /\ pc' = "trading") =>
          (pc = "disaster_turn" /\ cur = NumPlayers /\ cur' = 1)
    /\ (Interactive /\ pc = "trading" /\ pc' /= "trading") =>
          (pc' = "disaster_turn" /\ cur' = 1 /\ cur = NumPlayers)
    /\ (Interactive /\ pc = "trading" /\ players' /= players) =>
          \E Y \in Players \ {cur} :
              LET X == cur
              IN  /\ CanTrade(X) /\ CanTrade(Y)
                  /\ Cardinality(Hand(players, X) \ Hand(players', X)) = 1
                  /\ Hand(players, X) \ Hand(players', X)
                        = Hand(players', Y) \ Hand(players, Y)
                  /\ Cardinality(Hand(players, Y) \ Hand(players', Y)) = 1
                  /\ Hand(players, Y) \ Hand(players', Y)
                        = Hand(players', X) \ Hand(players, X)
                  /\ Len(players'[X].inventory) = Len(players[X].inventory)
                  /\ Len(players'[Y].inventory) = Len(players[Y].inventory)
                  /\ \A q \in Players \ {X, Y} : players'[q] = players[q]
                  /\ \A q \in Players : Fields(players'[q]) = Fields(players[q])

\* C24: game.py enters trading_phase only after the last seat's turn of a
\* round in which nobody arrived (first_to_safe_zone is None and no player has
\* reached_safe_zone), and leaves it for the first seat's turn of the next
\* round; a trading step that changes anything exchanges exactly one card of
\* the proposer for one card of another player, both of them not arrived and
\* with a non-empty inventory, and changes nothing else.
C24_TradingBetweenRounds == [] C24_TradingInv /\ [][C24_TradingStep]_vars

\* The second seat of the table proposed, after the first had declined, and
\* the cards changed hands.
C24_Witness ==
    /\ Interactive /\ last.op = "trade" /\ last.said = "Trade successful"
    /\ last.p = NumPlayers /\ pc = "disaster_turn" /\ cur = 1
    /\ first_to_safe_zone = 0
    /\ \E q \in Players : players[q].position > 0

Total(q) == TotalPoints(players[q])
Leaders == {q \in Players : \A r \in Players : Total(q) >= Total(r)}

\* C25: final_scoring names as winner a player whose total_points no other
\* player exceeds, and among several players with that total the one that
\* comes first in the player order; multi_strategy_eval.run counts a win for
\* players[0] exactly when no player's total exceeds that of players[0], ties
\* included.
C25_WinnerFirstOfLeaders ==
    /\ (Interactive /\ pc = "scored") =>
          /\ last.winner \in Leaders
          /\ \A q \in Leaders : last.winner <= q
          /\ last.total = Total(last.winner)
          /\ Range(last.ranked) = Players /\ Len(last.ranked) = NumPlayers
          /\ \A i, j \in 1..Len(last.ranked) :
                i < j => \/ Total(last.ranked[i]) > Total(last.ranked[j])
                         \/ /\ Total(last.ranked[i]) = Total(last.ranked[j])
                            /\ last.ranked[i] < last.ranked[j]
    /\ (engine = "eval" /\ pc = "scored") => (last.win <=> 1 \in Leaders)

\* game.py: seats 2 and 3 tie for the highest total, seat 1 is behind, and seat
\* 2 is the winner.
C25_Witness ==
    /\ Interactive /\ pc = "scored"
    /\ Leaders = {2, 3} /\ last.winner = 2

\* multi_strategy_eval.py: players[0] ties with another player and a win is counted.
C25_EvalTieCounted ==
    /\ engine = "eval" /\ pc = "scored" /\ last.win /\ Cardinality(Leaders) >= 2

\* The second of two runs with the same arguments ended as the first did.
SameAgain == players = ghost.first /\ Scores(players) = Scores(ghost.first)

\* C26: two runs given the same seed and the same policy end with identical
\* player states and scores, for SimulationRunner (sim_game_options.py) and
\* for multi_strategy_eval.run(seed = ...).
C26_SameSeedSameGame ==
    (engine \in {"sim", "eval"} /\ pc = "reran") => SameAgain

\* sim_game_options.py alone: the second run repeats the first.
C26_SimSameSeedSameGame == (engine = "sim" /\ pc = "reran") => SameAgain

\* game.py: two games set up for the same players are the same game.
C26_GameRepeatable == (engine = "game" /\ pc = "reran") => SameAgain

\* sim_game_options.py: a table of four was played twice on one seed.
C26_SimRanTwice ==
    /\ engine = "sim" /\ pc = "reran" /\ last.n = 4 /\ SameAgain
    /\ \E p \in DOMAIN players : players[p].inventory /= <<>>

\* How a preparation ended: the rounds begun and the turns each seat took.
RoundsPlayed == IF Interactive THEN prep_round ELSE prep_round + 1
PrepOutcome == [rounds |-> RoundsPlayed, actions |-> ghost.prep_actions]

\* The ends _prep_phase has: `for _round in range(7)` around `for p in players`.
HeadlessPrepOutcomes(n) ==
    {[rounds |-> PREP_ROUNDS, actions |-> [p \in 1..n |-> PREP_ROUNDS]]}

\* The ends preparation_phase has: all the rounds, or a spark after the turn of
\* seat s in a round r after the third.
GamePrepOutcomes(n) ==
    HeadlessPrepOutcomes(n) \cup
    {[rounds |-> r, actions |-> [p \in 1..n |-> IF p <= s THEN r ELSE r - 1]] :
        r \in (SPARK_AFTER_ROUND + 1)..PREP_ROUNDS, s \in 1..n}

\* C27: the preparation of the headless engines ends as that of game.py does,
\* after round 7 or on an early spark from round 4 on: whichever engine played
\* it, the outcome (rounds played, preparation turns per player) of a finished
\* preparation is an outcome of AutoGame._prep_phase and an outcome of
\* WildfireGame.preparation_phase.
C27_SamePrepOutcomes ==
    (pc = "prep_done") =>
        /\ PrepOutcome \in GamePrepOutcomes(NumPlayers)
        /\ PrepOutcome \in HeadlessPrepOutcomes(NumPlayers)

\* Every finished preparation, of any engine, is one game.py can play.
C27_OutcomesOfGame == (pc = "prep_done") => PrepOutcome \in GamePrepOutcomes(NumPlayers)

\* The headless preparations always run their seven rounds.
C27_HeadlessSevenRounds ==
    (Headless /\ pc = "prep_done") => PrepOutcome \in HeadlessPrepOutcomes(NumPlayers)

\* A table of an allowed size has just been set up by an engine that deals.
DealtTable ==
    /\ pc = "prep_turn" /\ engine \in {"game", "sim"}
    /\ \A p \in Players : ghost.prep_actions[p] = 0
    /\ NumPlayers \in MIN_PLAYERS..MAX_PLAYERS

\* C28: after the setup of game.py (WildfireGame.__init__) and of
\* sim_game_options.py (_deal_starting_resources), for every allowed number of
\* players and every outcome of the random choices of a location, every
\* player holds exactly 2 starting cards.
C28_TwoStartingCards ==
    DealtTable => \A p \in Players : Len(players[p].inventory) = STARTING_CARDS

\* No player is dealt more than two cards, and a table of up to three always
\* gets its two cards each.
C28_AtMostTwo ==
    DealtTable =>
        /\ \A p \in Players : Len(players[p].inventory) <= STARTING_CARDS
        /\ NumPlayers <= 3 => \A p \in Players : Len(players[p].inventory) = STARTING_CARDS

\* What a turn leaves of a player, field by field.
TurnResult(pl) ==
    <<pl.position, pl.tokens, pl.skipped_turns, pl.one_space_only, pl.reached_safe_zone,
      pl.bonus_points>>

\* C29: from the same player state, on the same movement value, the same
\* token, gamble and blocker answers, the same gamble roll and the same drawn
\* card, one disaster turn of game.py, of sim_game_options.py and of
\* multi_strategy_eval.py leaves the same position, tokens, skipped_turns,
\* one_space_only, reached_safe_zone and bonus_points (and inventory).
C29_SameTurn ==
    (pc = "compared") =>
        /\ TurnResult(players[1]) = TurnResult(players[2])
        /\ TurnResult(players[2]) = TurnResult(players[3])
        /\ players[1].inventory = players[2].inventory
        /\ players[2].inventory = players[3].inventory

\* A turn that spent a token, won the gamble from space 9 and met Medical
\* Emergency on space 12, in all three engines.
C29_Witness ==
    /\ pc = "compared" /\ last.in.spend /\ last.in.gamble /\ last.in.roll = 5
    /\ last.in.card.title = "Medical Emergency" /\ ~last.in.use
    /\ \A q \in 1..3 : /\ players[q].position = 12
                       /\ players[q].skipped_turns = 2
                       /\ players[q].tokens = MaxTokens - 1

\* The step is a disaster turn of seat q, in a game or on given inputs.
DisasterTurnOf(q) == cur = q /\ (pc = "turn" \/ TurnOf(q))
\* What a delayed or needless turn must leave alone besides the players.
TableKept ==
    /\ action_deck' = action_deck
    /\ location_decks' = location_decks
    /\ first_to_safe_zone' = first_to_safe_zone
    /\ first_to_safe' = first_to_safe
    /\ ghost'.draws = ghost.draws

C30_DelayedStep ==
    \A q \in DOMAIN players :
        (DisasterTurnOf(q) /\ ~players[q].reached_safe_zone /\ players[q].skipped_turns > 0) =>
            /\ players' = [players EXCEPT ![q].skipped_turns = @ - 1]
            /\ TableKept

C30_SafeStep ==
    \A q \in DOMAIN players :
        (DisasterTurnOf(q) /\ players[q].reached_safe_zone) =>
            /\ players' = players
            /\ TableKept

\* C30: a disaster turn of a player with skipped_turns > 0 takes exactly 1 off
\* skipped_turns and changes nothing else (position, tokens, one_space_only,
\* bonus_points, inventory, the other players, the action deck and
\* first_to_safe_zone stay, whatever the die, the answers and the card would
\* have been); a turn of a player already safe changes nothing at all.
C30_DelayedTurnOnlyCounts == [][C30_DelayedStep /\ C30_SafeStep]_vars

\* All three engines have played the turn of a player delayed by two turns on
\* red space 4: one delay is left, and the tokens, the space and the points are
\* as before, though a token spend was decided and Dehydration was the card to
\* come.
C30_Witness ==
    /\ pc = "compared" /\ last.in.spend /\ last.in.card.title = "Dehydration" /\ ~last.in.use
    /\ \A q \in 1..3 : /\ players[q].skipped_turns = 1
                       /\ ~players[q].one_space_only
                       /\ players[q].position = 4
                       /\ players[q].tokens = MaxTokens
                       /\ players[q].bonus_points = 0

\* In the games themselves, a player who reached the Safe Zone is neither
\* delayed nor under Road Block.
C30_SafeNotDelayed ==
    \A q \in DOMAIN players :
        players[q].reached_safe_zone =>
            players[q].skipped_turns = 0 /\ ~players[q].one_space_only

\* C37: in every reachable state of every engine, skipped_turns of every
\* player is 0, 1 or 2: delays never add up beyond the 2 of Medical Emergency.
C37_SkipsAtMostTwo ==
    \A q \in Players : players[q].skipped_turns \in 0..2

\* A player who already lost points to a card now waits two turns after
\* Medical Emergency.
C37_Witness ==
    \E q \in Players : /\ players[q].skipped_turns = 2
                       /\ players[q].bonus_points < 0
                       /\ players[q].position \in RED_SPACES

\* C38: in every reachable state of every engine, no player has both
\* one_space_only set and skipped_turns > 0.
C38_RoadBlockOrDelay ==
    \A q \in Players : ~(players[q].one_space_only /\ players[q].skipped_turns > 0)

\* One player is under Road Block while another one is delayed.
C38_Witness ==
    \E q, r \in Players : /\ players[q].one_space_only
                          /\ players[q].skipped_turns = 0
                          /\ players[r].skipped_turns > 0
                          /\ ~players[r].one_space_only

\* The step is a disaster turn in which seat q moves.
Moves(q) ==
    DisasterTurnOf(q) /\ ~players[q].reached_safe_zone /\ players[q].skipped_turns = 0
\* Seat q pays a token in this step.
Spends(q) == players'[q].tokens = players[q].tokens - 1
\* The spaces a turn can end on once its movement has taken the player to land:
\* land itself, the space a won gamble jumps to, and from a red one of these the
\* space Bad Directions leads back to.
TurnEnds(land) ==
    LET jumped == {land} \cup (IF land \in {5, 9} THEN {Min2(land + 3, 15)} ELSE {})
    IN  jumped \cup {Max2(0, x - 4) : x \in jumped \cap {4, 8, 10, 12, 13}}

\* In any game: a moving turn under Road Block advances by 1, or by 6 when a
\* token is paid, and leaves the flag set only on a red space, where a new
\* Road Block was drawn.
C31_RoadBlockStep ==
    \A q \in DOMAIN players :
        (Moves(q) /\ players[q].one_space_only) =>
            /\ players'[q].tokens \in {players[q].tokens, players[q].tokens - 1}
            /\ players'[q].position \in
                  TurnEnds(Min2(players[q].position + (IF Spends(q) THEN 6 ELSE 1), 15))
            /\ players'[q].one_space_only => players'[q].position \in {4, 8, 10, 12, 13}

\* On given inputs: the movement under Road Block is 1, plus 5 exactly when a
\* token is held and the answer is yes, whatever the die shows; the flag after
\* the turn says whether this turn's card was an unblocked Road Block.
C31_RoadBlockGiven ==
    \A q \in DOMAIN players :
        (pc = "turn" /\ Moves(q) /\ players[q].one_space_only) =>
            LET in      == last.in
                spent   == players[q].tokens >= 1 /\ in.spend
                land    == Min2(players[q].position + 1 + (IF spent THEN 5 ELSE 0), 15)
                jumped  == IF land \in {5, 9} /\ in.gamble /\ in.roll >= 5
                           THEN Min2(land + 3, 15) ELSE land
                applied == /\ jumped \in {4, 8, 10, 12, 13}
                           /\ ~(HasCard(players[q], in.card.blocker) /\ in.use)
            IN  /\ players'[q].tokens = players[q].tokens - (IF spent THEN 1 ELSE 0)
                /\ players'[q].position =
                      IF applied /\ in.card.title = "Bad Directions"
                      THEN Max2(0, jumped - 4) ELSE jumped
                /\ players'[q].one_space_only = (applied /\ in.card.title = "Road Block")

\* A delayed turn leaves the Road Block flag as it is.
C31_DelayKeepsFlag ==
    \A q \in DOMAIN players :
        (DisasterTurnOf(q) /\ players[q].skipped_turns > 0) =>
            players'[q].one_space_only = players[q].one_space_only

\* C31: Road Block takes effect in the player's next turn that moves (a delayed
\* turn does not consume it): the base movement of that turn is exactly 1
\* instead of the die, one_space_only is cleared before the turn's own card is
\* applied, and a token may still be added for a movement of 6.
C31_RoadBlockNextMove ==
    [][C31_RoadBlockStep /\ C31_RoadBlockGiven /\ C31_DelayKeepsFlag]_vars

\* Under Road Block on space 0, with a 6 on the die and a token paid, all three
\* engines end the turn on space 6, the flag cleared.
C31_Witness ==
    /\ pc = "compared" /\ last.in.die = 6 /\ last.in.spend
    /\ last.in.card.title /= "Bad Directions"
    /\ \A q \in 1..3 : /\ players[q].position = 6
                       /\ players[q].tokens = MaxTokens - 1
                       /\ ~players[q].one_space_only

\* In game.py, whose movements are 2, 4 or 6 (7, 9 or 11 with a token), space 5
\* is reached only by the single step of Road Block from space 4.
C31_GameWitness ==
    \E q \in DOMAIN players : engine = "game" /\ pc = "disaster_turn" /\ players[q].position = 5

\* tokens = (TakeToken actions taken) - (token spends decided), for every seat.
C32_TokenBalance ==
    \A q \in Players : players[q].tokens = ghost.taken[q] - ghost.spent[q]

\* In any game: a disaster turn takes at most one token, and only from a player
\* who moves and holds one; nobody else's tokens change; the movement of a turn
\* that paid is a base movement plus 5, of one that did not the base movement.
C32_SpendStep ==
    \A q \in DOMAIN players :
        DisasterTurnOf(q) =>
            /\ \A r \in DOMAIN players \ {q} : players'[r].tokens = players[r].tokens
            /\ \/ players'[q].tokens = players[q].tokens
               \/ Spends(q) /\ Moves(q) /\ players[q].tokens >= 1
            /\ Moves(q) =>
                 players'[q].position \in
                    UNION {TurnEnds(Min2(players[q].position + base
                                         + (IF Spends(q) THEN 5 ELSE 0), 15)) :
                             base \in IF players[q].one_space_only THEN {1} ELSE 1..6}

\* Outside the disaster turns (the phase start, trading) tokens stay.
C32_OtherSteps ==
    (pc \in {"disaster_start", "trading"}) =>
        \A q \in DOMAIN players : players'[q].tokens = players[q].tokens

\* On given inputs: a token is paid exactly when the player moves, holds one and
\* the answer is yes; the movement is then the base movement plus 5, and the
\* base movement otherwise.
C32_SpendGiven ==
    \A q \in DOMAIN players :
        (pc = "turn" /\ DisasterTurnOf(q)) =>
            LET in    == last.in
                spent == Moves(q) /\ players[q].tokens >= 1 /\ in.spend
                base  == IF players[q].one_space_only THEN 1 ELSE in.die
                land  == Min2(players[q].position + base + (IF spent THEN 5 ELSE 0), 15)
            IN  /\ players'[q].tokens = players[q].tokens - (IF spent THEN 1 ELSE 0)
                /\ Moves(q) =>
                     players'[q].position \in
                        (IF in.gamble \/ land \notin {5, 9} THEN TurnEnds(land) ELSE {land})

\* C32: a token spend is open only to a moving player with tokens >= 1, once
\* per turn; accepting takes exactly 1 token and adds exactly 5 to the turn's
\* movement, declining leaves both; at any time
\* tokens = (TakeToken actions taken) - (tokens spent).
C32_TokensAccounted ==
    [] C32_TokenBalance /\ [][C32_SpendStep /\ C32_OtherSteps]_vars

\* C32 on given inputs, in the three engines side by side.
C32_TokenGiven == [][C32_SpendStep /\ C32_SpendGiven]_vars

\* A player who took MaxTokens tokens in preparation has spent one of them.
C32_Witness ==
    \E q \in Players : /\ ghost.taken[q] = MaxTokens
                       /\ ghost.spent[q] = 1
                       /\ players[q].tokens = MaxTokens - 1
                       /\ players[q].position >= 6

\* The turns a card costs, by title.
CardDelay(title) ==
    CASE title \in {"Flat Tire", "Heavy Smoke", "Blackout"} -> 1
      [] title = "Medical Emergency"                        -> 2
      [] OTHER                                              -> 0

\* The spaces the movement of seat q can end on in this step: position plus a
\* base movement, plus 5 when a token is paid.
Landings(q) ==
    {Min2(players[q].position + base + (IF Spends(q) THEN 5 ELSE 0), 15) :
        base \in IF players[q].one_space_only THEN {1} ELSE 1..6}

\* In any game: a moving turn that ends on a shortcut space leaves a delay of 0
\* or 1 and no card penalty; a delay of 1 there means the movement itself ended
\* on that space (a player sent back onto 9 by Bad Directions has lost no
\* gamble); and a turn ends 3 spaces past a shortcut space only with no delay
\* other than a card's.
C33_GambleStep ==
    \A q \in DOMAIN players :
        (Moves(q) /\ players'[q].position \in {5, 9}) =>
            /\ players'[q].skipped_turns \in {0, 1}
            /\ players'[q].skipped_turns = 1 => players'[q].position \in Landings(q)
            /\ players'[q].position \notin Landings(q) =>
                  /\ players'[q].position = 9
                  /\ 13 \in Landings(q)
                  /\ players'[q].skipped_turns = 0
            /\ players'[q].bonus_points = players[q].bonus_points
            /\ ~players'[q].one_space_only

\* On given inputs: the gamble is taken exactly when the movement ends on 5 or
\* 9 and the answer is yes; won on a roll of 5 or more it adds 3 to the
\* position and no delay, lost it leaves the position and sets the delay to 1;
\* the card, if any, acts on the space reached after that.
C33_GambleGiven ==
    \A q \in DOMAIN players :
        (pc = "turn" /\ Moves(q)) =>
            LET in      == last.in
                spent   == players[q].tokens >= 1 /\ in.spend
                base    == IF players[q].one_space_only THEN 1 ELSE in.die
                land    == Min2(players[q].position + base + (IF spent THEN 5 ELSE 0), 15)
                offered == land \in {5, 9}
                won     == offered /\ in.gamble /\ in.roll >= 5
                lost    == offered /\ in.gamble /\ in.roll <= 4
                jumped  == IF won THEN Min2(land + 3, 15) ELSE land
                applied == /\ jumped \in {4, 8, 10, 12, 13}
                           /\ ~(HasCard(players[q], in.card.blocker) /\ in.use)
            IN  /\ players'[q].position =
                      IF applied /\ in.card.title = "Bad Directions"
                      THEN Max2(0, jumped - 4) ELSE jumped
                /\ players'[q].skipped_turns =
                      (IF lost THEN 1 ELSE 0)
                      + (IF applied THEN CardDelay(in.card.title) ELSE 0)
                /\ lost => players'[q] =
                      [players[q] EXCEPT !.position = land, !.skipped_turns = 1,
                                         !.one_space_only = FALSE,
                                         !.tokens = @ - (IF spent THEN 1 ELSE 0)]
                /\ (offered /\ ~in.gamble) => players'[q] =
                      [players[q] EXCEPT !.position = land,
                                         !.one_space_only = FALSE,
                                         !.tokens = @ - (IF spent THEN 1 ELSE 0)]

\* C33: the shortcut gamble is open only when the movement of the turn ends on
\* space 5 or 9, once per turn: a roll of 5 or 6 advances the position by 3 and
\* leaves skipped_turns, a roll of 1..4 leaves the position and sets
\* skipped_turns to 1, declining changes nothing; a player sent back onto
\* space 9 by Bad Directions is offered no gamble.
C33_ShortcutGamble == [][C33_GambleStep /\ C33_GambleGiven]_vars

\* All three engines lost the gamble on space 5 with a roll of 4: the player
\* stays there and loses the next turn.
C33_Witness ==
    /\ pc = "compared" /\ last.in.gamble /\ last.in.roll = 4
    /\ \A q \in 1..3 : players[q].position = 5 /\ players[q].skipped_turns = 1

\* Sent back from 13 onto 9 by Bad Directions, with a gamble wanted and a
\* losing roll at hand: no delay, so no gamble was taken.
C33_BackOnNine ==
    /\ pc = "compared" /\ last.in.gamble /\ last.in.roll = 4
    /\ last.in.card.title = "Bad Directions"
    /\ \A q \in 1..3 : players[q].position = 9 /\ players[q].skipped_turns = 0

\* The action cards drawn in this step, where the run counts them.
DrawsCounted == stream \notin {"stall", "long"} /\ pc /= "turn"
Drew == ghost'.draws - ghost.draws
\* The spaces seat q can stand on in this step after the movement and a won gamble.
AfterJump(q) == Landings(q) \cup {Min2(l + 3, 15) : l \in Landings(q) \cap {5, 9}}

\* In any game: a turn draws no card or one; a turn that does not move draws
\* none; a card is drawn from a red space reached by the movement or the jump,
\* and the player stays there or goes back 4; with no card the turn ends on a
\* space that is not red; a lost gamble draws none.
C34_CardStep ==
    \A q \in DOMAIN players :
        (DrawsCounted /\ DisasterTurnOf(q)) =>
            /\ Drew \in {0, 1}
            /\ ~Moves(q) => Drew = 0
            /\ (Moves(q) /\ Drew = 1) =>
                  \E j \in AfterJump(q) \cap {4, 8, 10, 12, 13} :
                      players'[q].position \in {j, Max2(0, j - 4)}
            /\ (Moves(q) /\ Drew = 0) =>
                  /\ players'[q].position \in AfterJump(q)
                  /\ players'[q].position \notin {4, 8, 10, 12, 13}
            /\ (Moves(q) /\ players'[q].skipped_turns = 1
                         /\ players'[q].position \in Landings(q) \cap {5, 9}) => Drew = 0
            /\ engine = "game" =>
                  Len(action_deck') = IF Drew = 0 THEN Len(action_deck)
                                      ELSE IF action_deck = <<>> THEN Len(ACTION_CARDS) - 1
                                      ELSE Len(action_deck) - 1

\* On given inputs: the player after the turn is the player after the movement
\* and the gamble, with the card's penalty applied once exactly when the space
\* reached by then is red and the card is not blocked, and with the arrival
\* recorded; nothing more.
C34_CardGiven ==
    \A q \in DOMAIN players :
        (pc = "turn" /\ Moves(q)) =>
            LET in      == last.in
                spent   == players[q].tokens >= 1 /\ in.spend
                base    == IF players[q].one_space_only THEN 1 ELSE in.die
                land    == Min2(players[q].position + base + (IF spent THEN 5 ELSE 0), 15)
                won     == land \in {5, 9} /\ in.gamble /\ in.roll >= 5
                lost    == land \in {5, 9} /\ in.gamble /\ in.roll <= 4
                jumped  == IF won THEN Min2(land + 3, 15) ELSE land
                moved   == [players[q] EXCEPT !.position = jumped,
                                              !.tokens = @ - (IF spent THEN 1 ELSE 0),
                                              !.one_space_only = FALSE,
                                              !.skipped_turns = IF lost THEN 1 ELSE 0]
                applied == /\ jumped \in {4, 8, 10, 12, 13}
                           /\ ~(HasCard(players[q], in.card.blocker) /\ in.use)
                title   == in.card.title
                carded  == IF ~applied THEN moved
                           ELSE [moved EXCEPT
                                   !.skipped_turns = @ + CardDelay(title),
                                   !.one_space_only = (title = "Road Block"),
                                   !.position = IF title = "Bad Directions"
                                                THEN Max2(0, @ - 4) ELSE @,
                                   !.bonus_points =
                                       IF title \in {"Dehydration", "Food Spoilage"}
                                       THEN @ - 5 ELSE @]
                arrived == IF carded.position < 15 THEN carded
                           ELSE [carded EXCEPT !.reached_safe_zone = TRUE,
                                               !.bonus_points = IF in.first THEN @ ELSE @ + 5]
            IN  /\ players'[q] = arrived
                /\ won => jumped \in {8, 12}
                /\ lost => ~applied

\* C34: a turn resolves at most one action card, and resolves one exactly when
\* the space reached after the movement and any shortcut jump is red (4, 8, 10,
\* 12 or 13): a won gamble (5 -> 8, 9 -> 12) always meets a card in the same
\* turn, a lost one never, and a player whom Bad Directions puts on red space
\* 4 or 8 meets no second card.
C34_OneCardOnRed == [][C34_CardStep /\ C34_CardGiven]_vars

\* The only card drawn so far sent a player who had paid a token back to red
\* space 4: the player came from 8, and no second card was drawn on 4.
C34_Witness ==
    \E q \in Players : /\ DrawsCounted /\ ghost.draws = 1
                       /\ ghost.spent[q] = 1
                       /\ players[q].position = 4

\* On given inputs, in all three engines: a won gamble from 5 met Bad
\* Directions on 8 and ended on 4, once.
C34_WonAndBack ==
    /\ pc = "compared" /\ last.in.gamble /\ last.in.roll = 5
    /\ last.in.card.title = "Bad Directions" /\ last.in.die = 4 /\ ~last.in.spend
    /\ \A q \in 1..3 : players[q].position = 4 /\ players[q].tokens = 0
                         /\ players[q].skipped_turns = 0

\* reached_safe_zone says that the player stands on SAFE_ZONE_INDEX.
C35_SafeIffArrived ==
    \A q \in Players : players[q].reached_safe_zone <=> players[q].position = SAFE_ZONE_INDEX

\* A player who is safe stays safe, and nothing of the race changes for them.
C35_SafeStep ==
    \A q \in DOMAIN players :
        players[q].reached_safe_zone =>
            /\ players'[q].reached_safe_zone
            /\ players'[q].position = players[q].position
            /\ players'[q].tokens = players[q].tokens
            /\ players'[q].skipped_turns = players[q].skipped_turns
            /\ players'[q].one_space_only = players[q].one_space_only
            /\ players'[q].bonus_points = players[q].bonus_points

\* C35: reached_safe_zone is false until the player's position is
\* SAFE_ZONE_INDEX; between turns it is true exactly when the position is
\* SAFE_ZONE_INDEX; and once it is true the player's position, tokens,
\* skipped_turns, one_space_only and bonus_points never change again.
C35_SafeForGood == [] C35_SafeIffArrived /\ [][C35_SafeStep]_vars

\* A headless game in which one player arrived first and another one later:
\* turns went on after the first player was safe.
C35_Witness ==
    \E q, r \in Players :
        /\ Headless
        /\ players[q].reached_safe_zone /\ ghost.awards[q] = 1
        /\ players[r].reached_safe_zone /\ ghost.awards[r] = 0

\* No die in rounds 1 to 3, and so no spark.
C36_NoEarlyRoll ==
    (PrepStep /\ prep_round <= 3) => (~last'.rolled /\ ~last'.spark /\ phase' = "prep")

\* In turn order nobody is behind a later player, and nobody is more than one
\* action ahead.
C36_InTurnOrder ==
    Interactive =>
        \A q, r \in Players :
            q < r => /\ ghost.prep_actions[q] >= ghost.prep_actions[r]
                     /\ ghost.prep_actions[q] - ghost.prep_actions[r] <= 1

\* When preparation_phase has ended, every player has had 3 to 7 turns.
C36_ThreeToSeven ==
    (Interactive /\ pc = "prep_done") =>
        \A q \in Players : ghost.prep_actions[q] \in 3..7

\* C36: the early spark cannot fire in preparation rounds 1 to 3 (no die is
\* rolled while prep_round <= 3), so every player takes at least 3 and at most 7
\* preparation actions; at the end of the phase the numbers of actions of any
\* two players differ by at most 1, and an earlier player in turn order has
\* never taken fewer than a later one.
C36_PrepActionsBalanced ==
    [] (C36_InTurnOrder /\ C36_ThreeToSeven) /\ [][C36_NoEarlyRoll]_vars

\* The spark after the first player's turn of round 4 ends the phase with four
\* actions for that player and three for the last one.
C36_Witness ==
    /\ Interactive /\ pc = "prep_done" /\ last.op = "prep" /\ last.spark
    /\ ghost.prep_actions[1] = 4
    /\ ghost.prep_actions[NumPlayers] = 3

\* The cards on the table: in the inventories and in the location decks.
CardsHeld == UNION {Range(players[q].inventory) : q \in DOMAIN players}
CardsInDecks == UNION {Range(location_decks[loc]) : loc \in DOMAIN location_decks}
RECURSIVE HeldCount(_)
HeldCount(n) == IF n = 0 THEN 0 ELSE Len(players[n].inventory) + HeldCount(n - 1)
RECURSIVE DeckCount(_)
DeckCount(n) == IF n = 0 THEN 0 ELSE Len(location_decks[LocNames[n]]) + DeckCount(n - 1)
OnTable == HeldCount(Len(players)) + DeckCount(Len(LocNames))

\* Every card is in one place only.
C39_EachCardOnce == Cardinality(CardsHeld \cup CardsInDecks) = OnTable

InDisasterPhase == pc \in {"disaster_start", "disaster_turn", "trading", "sim_turn", "eval_turn"}

\* No step changes the number of cards on the table, and a location deck only
\* loses cards from its top.
C39_KeptStep ==
    /\ OnTable' = OnTable
    /\ \A loc \in DOMAIN location_decks :
          /\ Len(location_decks'[loc]) <= Len(location_decks[loc])
          /\ location_decks'[loc] = SubSeq(location_decks[loc], 1, Len(location_decks'[loc]))

\* In the disaster phase the decks stay, and so does every inventory, but for
\* those of the two players of a successful trade, which hold the same cards
\* between them as before; the headless engines have no trade.
C39_DisasterStep ==
    InDisasterPhase =>
        /\ location_decks' = location_decks
        /\ \/ \A q \in DOMAIN players : players'[q].inventory = players[q].inventory
           \/ /\ Interactive /\ pc = "trading" /\ last'.op = "trade"
              /\ last'.said = "Trade successful"
              /\ \E x, y \in Players :
                    /\ x /= y
                    /\ Range(players'[x].inventory) \cup Range(players'[y].inventory)
                         = Range(players[x].inventory) \cup Range(players[y].inventory)
                    /\ \A q \in Players \ {x, y} : players'[q].inventory = players[q].inventory

\* C39: no card is discarded or created after setup: in the disaster phase an
\* inventory changes only by a successful trade (never by movement, a gamble, a
\* blocker or any card of ACTION_CARDS), in the headless engines not at all,
\* and the location decks are never refilled and never grow.
C39_CardsConserved == [] C39_EachCardOnce /\ [][C39_KeptStep /\ C39_DisasterStep]_vars

\* In game.py a trade has succeeded after two action cards were drawn, one of
\* them costing a trader points.
C39_Witness ==
    /\ Interactive /\ last.op = "trade" /\ last.said = "Trade successful"
    /\ ghost.draws = 2
    /\ \E q \in Players : players[q].bonus_points < 0 /\ players[q].inventory /= <<>>

\* A game of multi_strategy_eval.run has been played; the model's run is the
\* one of the pair whose profile is the first character of CHARACTER_CARDS.
EvalGamePlayed == engine = "eval" /\ pc \in {"ran", "reran"} /\ last.op = "run"

\* C40: the player recorded under (profile, strategy), players[0], who alone
\* plays StrategyPolicy(strategy), has the character profile whatever the
\* shuffle of the seats.
C40_HeroIsProfile == EvalGamePlayed => players[1].character = CharNames[1]

\* The profile does sit at the table, at one seat only.
C40_ProfileSeated ==
    EvalGamePlayed => Cardinality({q \in DOMAIN players : players[q].character = CharNames[1]}) = 1

====
